---- MODULE Spec2Model ----
(***************************************************************************)
(* Sandbox session lifecycle of hermes.                                    *)
(*                                                                         *)
(* Spec       : the remote-cloud provider (CloudSandboxProvider) over the  *)
(*              session store and the Deno Deploy backend.                 *)
(* DockerSpec : the local-container service (docker.ts).                   *)
(* BuildSpec  : the sandbox image (ensureImage, ensureDockerImage).        *)
(* ShellSpec  : CloudSandboxProvider.createShell.                          *)
(* StatusSpec : the session status derived from docker inspect.            *)
(* TelemetrySpec : the telemetry queue (TelemetryService).                 *)
(* TelemetryFairSpec : TelemetrySpec with every send running to its end.   *)
(* PromptSpec : the prompt history (promptHistoryDb, usePromptHistoryStore).*)
(* LogSpec    : CloudSandboxProvider.streamLogs.                           *)
(* CredsSpec  : the credential files mounted into containers.              *)
(* CallsSpec  : list() and stop(id) interleaved at their awaits.           *)
(*                                                                         *)
(* Every provider operation is one action: the whole handler, with the     *)
(* outcome of each backend call drawn from the outcomes the backend can    *)
(* produce.  `last` records the most recent operation: its arguments, the  *)
(* store before it, the backend calls it issued (in order), the error it   *)
(* rejected with and the value it returned.                                *)
(***************************************************************************)
EXTENDS Integers, Sequences, FiniteSets, TLC

VARIABLES
    store,       \* session store: id -> row (sessions table, keyed by id)
    sandboxes,   \* backend: live sandboxes, each [id, root]
    volumes,     \* backend: existing volume slugs
    snapshots,   \* backend: existing session snapshots, each [slug, src]
    nextSb,      \* backend: last sandbox id handed out
    nextVol,     \* last volume slug generated
    nextSnap,    \* last snapshot slug generated
    nextLocal,   \* last local-container row id recorded
    last,        \* the most recent provider operation
    containers,  \* docker: container index -> container
    images,      \* docker: resume images that exist
    dlast,       \* docker: the most recent docker.ts operation
    baseSnapshot,    \* image build: the base snapshot of this version exists
    buildVolumes,    \* image build: build volumes that exist
    buildSandboxes,  \* image build: live build sandboxes, each its volume
    nextBuild,       \* image build: last build volume created
    dockerImage,     \* image build: the docker image of this Dockerfile exists
    blast,           \* image build: the most recent ensure call
    progress,        \* image build: events ensureImage's onProgress received
    cstate,      \* status: the State docker inspect reports for a container
    listStatus,  \* status: what listHermesSessions reported for it
    getStatus,   \* status: what getSession reported for it
    queue,           \* telemetry: TelemetryService.queue, oldest first
    flushPromise,    \* telemetry: a flush is in flight (flushPromise set)
    sends,           \* telemetry: the sendWithRetry calls not yet awaited
    enabledCache,    \* telemetry: _enabledCache
    tracks,          \* telemetry: the track calls in progress
    nextEvent,       \* telemetry: last event handed to track
    history,     \* prompts: the prompt_history rows, in id order
    entries,     \* prompts: usePromptHistoryStore entries, oldest first
    index,       \* prompts: usePromptHistoryStore navigation index
    initialized, \* prompts: usePromptHistoryStore initialized
    pcall,       \* prompts: the most recent call
    agentLog,    \* logs: length of /work/agent.log in the sandbox
    lastOffset,  \* logs: streamLogs lastOffset
    emitted,     \* logs: characters the stream has yielded
    streamStopped,   \* logs: streamLogs stopped
    logPc,       \* logs: where generateLines stands
    lastPoll,    \* logs: how the most recent poll went
    claudeCreds,     \* credentials: what is at CLAUDE_LOCAL_CREDS_PATH
    opencodeAuth,    \* credentials: what is at OPENCODE_LOCAL_AUTH_PATH
    clast,           \* credentials: the most recent call
    listCall,        \* a list() call in progress: where it stands, its rows
    stopCall         \* a stop(id) call in progress: where it stands, its row

cloudVars == <<store, sandboxes, volumes, snapshots, nextSb, nextVol,
               nextSnap, nextLocal, last>>
dockerVars == <<containers, images, dlast>>
buildVars == <<baseSnapshot, buildVolumes, buildSandboxes, nextBuild,
               dockerImage, blast, progress>>
vars == <<store, sandboxes, volumes, snapshots, nextSb, nextVol,
          nextSnap, nextLocal, last, containers, images, dlast,
          baseSnapshot, buildVolumes, buildSandboxes, nextBuild,
          dockerImage, blast, progress, cstate, listStatus, getStatus, queue,
          flushPromise, sends, enabledCache, tracks, nextEvent, history,
          entries, index, initialized, pcall, agentLog, lastOffset,
          emitted, streamStopped, logPc, lastPoll, claudeCreds, opencodeAuth,
          clast, listCall, stopCall>>
statusVars == <<cstate, listStatus, getStatus>>
telemetryVars ==
    <<queue, flushPromise, sends, enabledCache, tracks, nextEvent>>
promptVars == <<history, entries, index, initialized, pcall>>
logVars ==
    <<agentLog, lastOffset, emitted, streamStopped, logPc, lastPoll>>
credVars == <<claudeCreds, opencodeAuth, clast>>
callVars == <<listCall, stopCall>>
\* what the operations of one service leave alone
outsideCloud ==
    <<dockerVars, buildVars, statusVars, telemetryVars, promptVars, logVars,
      credVars, callVars>>
outsideDocker ==
    <<cloudVars, buildVars, statusVars, telemetryVars, promptVars, logVars,
      credVars, callVars>>
outsideBuild ==
    <<cloudVars, dockerVars, statusVars, telemetryVars, promptVars, logVars,
      credVars, callVars>>
outsideStatus ==
    <<cloudVars, dockerVars, buildVars, telemetryVars, promptVars, logVars,
      credVars, callVars>>
outsideTelemetry ==
    <<cloudVars, dockerVars, buildVars, statusVars, promptVars, logVars,
      credVars, callVars>>
outsidePrompts ==
    <<cloudVars, dockerVars, buildVars, statusVars, telemetryVars, logVars,
      credVars, callVars>>
outsideLogs ==
    <<cloudVars, dockerVars, buildVars, statusVars, telemetryVars,
      promptVars, credVars, callVars>>
outsideCalls ==
    <<dockerVars, buildVars, statusVars, telemetryVars, promptVars, logVars,
      credVars>>
outsideCreds ==
    <<cloudVars, dockerVars, buildVars, statusVars, telemetryVars,
      promptVars, logVars, callVars>>

----------------------------------------------------------------------------
(* Bounds *)

MaxSandboxes == 2
MaxVolumes == 2
MaxSnapshots == 1
MaxLocal == 1
MaxContainers == 2
MaxBuilds == 2        \* build volumes created
MaxEnsureCalls == 3   \* ensure calls made
MaxExitCode == 1      \* exit codes are 0..MaxExitCode
MaxTime == 1          \* timestamps are 0..MaxTime
MAX_QUEUE_SIZE == 3   \* telemetry queue limit (100 in the code, scaled)
BATCH_SIZE == 2       \* events that start a flush (10 in the code, scaled)
MaxTracks == 2        \* track calls in progress at once
MaxEvents == 6        \* events handed to track
MaxPromptLen == 2     \* characters of a prompt
MaxHistory == 3       \* prompts stored
PAGE_SIZE == 2        \* prompts initialize loads (50 in the code, scaled)
MaxLogLen == 4        \* characters of /work/agent.log
MaxContent == 2       \* contents of a credentials file are 0..MaxContent

----------------------------------------------------------------------------
(* Values *)

EmptyId == 0          \* the empty string as a sandbox id
NoSlug == 0           \* volumeSlug / snapshotSlug undefined
NoSession == -1       \* resumedFrom undefined
LocalBase == 100      \* ids of local-container rows are LocalBase + k
NoImage == 0          \* the label hermes.resume-image undefined
Undefined == -1       \* exitCode / finishedAt undefined
MAX_RETRIES == 3      \* attempts sendWithRetry makes for one batch

Agents == {"claude", "opencode"}

SandboxIds == 1..MaxSandboxes
LocalIds == {LocalBase + k : k \in 1..MaxLocal}
\* ids a caller may pass to the cloud provider: any id a cloud row can have,
\* whether or not it has one now (getProviderForSession hands the provider
\* only sessions of its own)
CallerIds == {EmptyId} \cup SandboxIds

Row(id, provider, status, agent, vol, snap, from) ==
    [id |-> id, provider |-> provider, status |-> status, agent |-> agent,
     volumeSlug |-> vol, snapshotSlug |-> snap, resumedFrom |-> from]

NoRow == Row(NoSession, "none", "none", "none", NoSlug, NoSlug, NoSession)

Null == <<>>

\* a reference to a container: its id, the first twelve characters of its
\* id, or its name
Ref(kind, n) == [kind |-> kind, n |-> n]
NoRef == Ref("none", 0)
RefKinds == {"id", "short", "name"}
Refs == {Ref(k, n) : k \in RefKinds, n \in 1..MaxContainers}

Container(exists, running, managed, agent, resumedFrom, resumeImage) ==
    [exists |-> exists, running |-> running, managed |-> managed, agent |-> agent,
     resumedFrom |-> resumedFrom, resumeImage |-> resumeImage]

DockerOp(op, arg, detached, err, ret) ==
    [op |-> op, arg |-> arg, detached |-> detached, err |-> err, ret |-> ret]
DockerNone == DockerOp("none", NoRef, FALSE, "none", NoRef)

\* an ensure call: the n-th call, what it was, the calls it issued, the error
\* it rejected with and the image identifier it returned
BuildOp(n, op, trace, err, ret) ==
    [n |-> n, op |-> op, trace |-> trace, err |-> err, ret |-> ret]
BuildNone == BuildOp(0, "none", <<>>, "none", "none")

\* one call of an operation: its argument, whether it succeeded, and the
\* message of the error it threw
Event(call, arg, ok) == [call |-> call, arg |-> arg, ok |-> ok, msg |-> <<>>]
Failed(call, arg, msg) == [call |-> call, arg |-> arg, ok |-> FALSE, msg |-> msg]

Err(call, msg, n) == [call |-> call, msg |-> msg, n |-> n]
NoError == Err("none", <<>>, 0)
NoTokenError == Err("getClient", <<"No Deno Deploy token available">>, 0)
NoResumeError ==
    Err("resume", <<"No resume snapshot or volume available for this session">>, 0)
LimitError(n) == Err("limit", <<"Cloud sandbox limit reached">>, n)

\* messages the backend may reject a sandbox boot with
\* DockerInspectResult.State
State(Status, Running, Paused, Restarting, Dead, ExitCode, FinishedAt) ==
    [Status |-> Status, Running |-> Running, Paused |-> Paused,
     Restarting |-> Restarting, Dead |-> Dead, ExitCode |-> ExitCode,
     FinishedAt |-> FinishedAt]
NoState == State("none", FALSE, FALSE, FALSE, FALSE, 0, 0)
\* the status fields of a HermesSession
Report(status, exitCode, finishedAt) ==
    [status |-> status, exitCode |-> exitCode, finishedAt |-> finishedAt]
NoReport == Report("none", Undefined, Undefined)
\* a track call: where it stands and the event it carries
Track(pc, event) == [pc |-> pc, event |-> event]
NoTrack == Track("idle", 0)
\* a sendWithRetry call: the attempts made, the last response, how the
\* call ended, and whether a later flush call returned its promise
Send(batch, attempts, response, outcome, joined) ==
    [batch |-> batch, attempts |-> attempts, response |-> response,
     outcome |-> outcome, joined |-> joined]
NewSend(batch) == Send(batch, 0, "none", "pending", FALSE)
\* a call on the prompt history: the operation, the prompt or input it was
\* given, the direction of a move, and what it returned
Call(op, prompt, direction, ret) ==
    [op |-> op, prompt |-> prompt, direction |-> direction, ret |-> ret]
NoCall == Call("none", <<>>, 0, <<>>)
\* what a path of the file system holds: nothing, a directory, or a
\* regular file with its content
Path(kind, content) == [kind |-> kind, content |-> content]
Absent == Path("absent", 0)
Directory == Path("directory", 0)
\* a call of getClaudeConfigVolume / getOpencodeConfigVolume: the path
\* before it, and whether it returned or threw
CredCall(op, pre, outcome) == [op |-> op, pre |-> pre, outcome |-> outcome]
NoCredCall == CredCall("none", Absent, "none")
\* a list() call between two of its awaits: the rows it read at its start
ListCall(pc, dbSessions) == [pc |-> pc, dbSessions |-> dbSessions]
NoListCall == ListCall("idle", <<>>)
\* a stop(id) call between two of its awaits: the row it read at its start
StopCall(pc, id, session) == [pc |-> pc, id |-> id, session |-> session]
NoStopCall == StopCall("idle", NoSession, NoRow)

BootMessages ==
    { <<"internal", "error">>,
      <<"sandbox", "limit", "exceeded">>,
      <<"too", "many", "concurrent", "sandboxes">>,
      <<"quota", "exhausted">> }

IsLimitMessage(m) ==
    \E i \in 1..Len(m) : m[i] \in {"limit", "concurrent", "quota"}

----------------------------------------------------------------------------
(* Session store (sessionDb.ts) *)

dbGetSession(db, id) == IF id \in DOMAIN db THEN db[id] ELSE NoRow

upsertSession(db, row) ==
    [i \in DOMAIN db \cup {row.id} |-> IF i = row.id THEN row ELSE db[i]]

updateSessionStatus(db, id, status) ==
    [i \in DOMAIN db |-> IF i = id THEN [db[i] EXCEPT !.status = status] ELSE db[i]]

updateSessionSnapshot(db, id, slug) ==
    [i \in DOMAIN db |-> IF i = id THEN [db[i] EXCEPT !.snapshotSlug = slug] ELSE db[i]]

dbDeleteSession(db, id) == [i \in DOMAIN db \ {id} |-> db[i]]

dbListSessions(db, provider) ==
    [i \in {j \in DOMAIN db : db[j].provider = provider} |-> db[i]]

RunningCount(db) ==
    Cardinality({i \in DOMAIN db : db[i].provider = "cloud" /\ db[i].status = "running"})

----------------------------------------------------------------------------
(* Backend (Deno Deploy) *)

LiveIds == {s.id : s \in sandboxes}

\* Sandbox.connect + kill reaches only a sandbox that is alive
KillPossible(id) == id \in LiveIds

DeleteSnapshotPossible(slug) == \E s \in snapshots : s.slug = slug

CloneVolumePossible(slug) == \E s \in snapshots : s.slug = slug

----------------------------------------------------------------------------
(* Helpers on step sequences *)

IndexOf(seq, x) ==
    IF \E i \in 1..Len(seq) : seq[i] = x
    THEN CHOOSE i \in 1..Len(seq) : seq[i] = x
    ELSE 0

\* the steps that run when the step failAt throws: up to and including it
StepsUpTo(order, failAt) ==
    IF IndexOf(order, failAt) = 0 THEN order
    ELSE SubSeq(order, 1, IndexOf(order, failAt))

Has(trace, call) == \E i \in 1..Len(trace) : trace[i].call = call

RECURSIVE SortedIds(_)
SortedIds(S) ==
    IF S = {} THEN <<>>
    ELSE LET m == CHOOSE x \in S : \A y \in S : x <= y
         IN  <<m>> \o SortedIds(S \ {m})

NoRequest == [agent |-> "none", interactive |-> FALSE]

\* the record of one operation: its name and id argument, what was requested,
\* the row of that id and the ids of all rows before it ran, the calls it
\* issued in order, the error it rejected with, the value it returned, and
\* (list) the ids the backend listed
Op(op, id, req, db, trace, err, ret, listed) ==
    [op |-> op, id |-> id, req |-> req,
     pre |-> IF id \in DOMAIN db THEN db[id] ELSE NoRow,
     ids |-> DOMAIN db,
     trace |-> trace, err |-> err, ret |-> ret, listed |-> listed]

\* no operation is recorded: the caller has taken the last one's result
Idle == Op("none", NoSession, NoRequest, <<>>, <<>>, NoError, Null, {})

----------------------------------------------------------------------------
(* CloudSandboxProvider.getClient: the cached client, else one built from   *)
(* the stored token; throws when there is neither.  Every command runs in   *)
(* a process of its own with a provider of its own, so whether getClient    *)
(* succeeds is decided per call by whether a token is stored then.          *)

getClientOk(tokenOk) == tokenOk

----------------------------------------------------------------------------
(* CloudSandboxProvider.create *)

\* a create that clones the repository before it injects the credentials
CreateOrderCloneFirst(hasInit) ==
    <<"getClient", "ensureImage", "createVolume", "createSandbox",
      "clone", "injectCredentials">>
    \o (IF hasInit THEN <<"init">> ELSE <<>>)
    \o <<"agent">>

\* the steps of create, in the order it awaits them ("clone": the clone of
\* the repository, or the mkdir of the working directory)
CreateOrder(hasInit) ==
    <<"getClient", "ensureImage", "createVolume", "createSandbox",
      "injectCredentials", "clone">>
    \o (IF hasInit THEN <<"init">> ELSE <<>>)
    \o <<"agent">>

PostBootSteps == {"injectCredentials", "clone", "init", "agent"}

\* the sandbox was booted: every step after createSandbox, or no failure
Booted(order, failAt) ==
    IndexOf(order, failAt) = 0 \/ IndexOf(order, failAt) > IndexOf(order, "createSandbox")

\* the calls create issues, in order, when step failAt throws ("none": no step)
CreateTrace(order, failAt, v, bootMsg, delOk) ==
    LET done == StepsUpTo(order, failAt)
        main == [i \in 1..Len(done) |->
                    IF done[i] = "createSandbox" /\ failAt = "createSandbox"
                    THEN Failed("createSandbox", v, bootMsg)
                    ELSE Event(done[i],
                               IF done[i] \in {"createVolume", "createSandbox"} THEN v ELSE 0,
                               done[i] # failAt)]
    IN  main
        \o (IF failAt = "createSandbox" THEN <<Event("deleteVolume", v, delOk)>> ELSE <<>>)
        \o (IF Booted(order, failAt) THEN <<Event("close", 0, TRUE)>> ELSE <<>>)

\* a create whose failed volume delete replaces the boot's error
CreateErrorOfCleanup(order, failAt, bootMsg, delOk, running) ==
    IF failAt = "getClient" THEN NoTokenError
    ELSE IF failAt = "createSandbox"
         THEN IF ~delOk THEN Err("deleteVolume", <<"step failed">>, 0)
              ELSE IF IsLimitMessage(bootMsg) THEN LimitError(running)
              ELSE Err("createSandbox", bootMsg, 0)
    ELSE IF failAt = "none" THEN NoError
    ELSE Err(failAt, <<"step failed">>, 0)

\* the error create rejects with (NoError: it resolves)
CreateError(order, failAt, bootMsg, delOk, running) ==
    IF failAt = "getClient" THEN NoTokenError
    ELSE IF failAt = "createSandbox"
         THEN IF IsLimitMessage(bootMsg) THEN LimitError(running)
              ELSE Err("createSandbox", bootMsg, 0)
    ELSE IF failAt = "none" THEN NoError
    ELSE Err(failAt, <<"step failed">>, 0)

\* the row create records; resolvedId is what the backend client resolved
CreateSession(resolvedId, agent, v) ==
    Row(resolvedId, "cloud", "running", agent, v, NoSlug, NoSession)

\* the outcomes of the calls of one create: the step that throws ("none":
\* no step), the message of a failed boot, whether the volume delete of the
\* boot-failure path succeeds, and whether the backend client resolved the
\* new sandbox's id
CreateOutcomes ==
    [failAt : {"none"}, bootMsg : {<<>>}, delOk : {TRUE}, resolved : BOOLEAN]
    \cup [failAt : {"getClient", "ensureImage", "createVolume"} \cup PostBootSteps,
          bootMsg : {<<>>}, delOk : {TRUE}, resolved : {TRUE}]
    \cup [failAt : {"createSandbox"}, bootMsg : BootMessages,
          delOk : BOOLEAN, resolved : {TRUE}]

Create(agent, interactive, hasInit, tokenOk, out) ==
    /\ last = Idle
    /\ nextSb < MaxSandboxes
    /\ nextVol < MaxVolumes
    /\ (out.failAt = "getClient") = ~getClientOk(tokenOk)
    /\ out.failAt = "init" => hasInit
    /\ LET order == CreateOrder(hasInit)
           failAt == out.failAt
           v == nextVol + 1
           sb == nextSb + 1
           resolvedId == IF out.resolved THEN sb ELSE EmptyId
           trace == CreateTrace(order, failAt, v, out.bootMsg, out.delOk)
           err == CreateError(order, failAt, out.bootMsg, out.delOk, RunningCount(store))
           session == CreateSession(resolvedId, agent, v)
           volMade == Has(trace, "createVolume") /\ failAt # "createVolume"
           booted == Booted(order, failAt)
       IN  /\ nextVol' = IF volMade THEN v ELSE nextVol
           /\ volumes' = IF volMade /\ ~(failAt = "createSandbox" /\ out.delOk)
                          THEN volumes \cup {v} ELSE volumes
           /\ nextSb' = IF booted THEN sb ELSE nextSb
           /\ sandboxes' = IF booted THEN sandboxes \cup {[id |-> sb, root |-> v]}
                            ELSE sandboxes
           /\ store' = IF err = NoError THEN upsertSession(store, session) ELSE store
           /\ last' = Op("create", NoSession, [agent |-> agent, interactive |-> interactive],
                          store, trace, err,
                          IF err = NoError /\ ~interactive THEN <<session>> ELSE Null,
                          {})
           /\ UNCHANGED <<snapshots, nextSnap, nextLocal>>

----------------------------------------------------------------------------
(* CloudSandboxProvider.resume *)

Resumable(existing) ==
    existing.snapshotSlug # NoSlug \/ existing.volumeSlug # NoSlug

ResumeOrder(existing) ==
    <<"getClient", "check">>
    \o (IF existing.snapshotSlug # NoSlug THEN <<"createVolume">> ELSE <<>>)
    \o <<"createSandbox", "injectCredentials", "agent">>

\* a resume that prefers the session's existing volume
BootVolumeExistingFirst(existing, newVol) ==
    IF existing.volumeSlug # NoSlug THEN existing.volumeSlug ELSE newVol

\* the volume the new sandbox boots from: a new volume cloned from the resume
\* snapshot, else the session's existing volume
BootVolume(existing, newVol) ==
    IF existing.snapshotSlug # NoSlug THEN newVol ELSE existing.volumeSlug

\* a resume that deletes the volume it booted from, its own or not
ResumeTraceDeletesBootVolume(existing, failAt, newVol, bootMsg, delOk) ==
    LET order == ResumeOrder(existing)
        done == StepsUpTo(order, failAt)
        bootVol == BootVolume(existing, newVol)
        main == [i \in 1..Len(done) |->
                    IF done[i] = "createSandbox" /\ failAt = "createSandbox"
                    THEN Failed("createSandbox", bootVol, bootMsg)
                    ELSE Event(done[i],
                               IF done[i] = "createVolume" THEN newVol
                               ELSE IF done[i] = "createSandbox" THEN bootVol ELSE 0,
                               done[i] # failAt)]
    IN  main
        \o (IF failAt = "createSandbox"
            THEN <<Event("deleteVolume", bootVol, delOk)>> ELSE <<>>)
        \o (IF Booted(order, failAt) THEN <<Event("close", 0, TRUE)>> ELSE <<>>)

\* the calls resume issues, in order, when step failAt throws
ResumeTrace(existing, failAt, newVol, bootMsg, delOk) ==
    LET order == ResumeOrder(existing)
        done == StepsUpTo(order, failAt)
        bootVol == BootVolume(existing, newVol)
        createdNewVolume == existing.snapshotSlug # NoSlug
        main == [i \in 1..Len(done) |->
                    IF done[i] = "createSandbox" /\ failAt = "createSandbox"
                    THEN Failed("createSandbox", bootVol, bootMsg)
                    ELSE Event(done[i],
                               IF done[i] = "createVolume" THEN newVol
                               ELSE IF done[i] = "createSandbox" THEN bootVol ELSE 0,
                               done[i] # failAt)]
    IN  main
        \o (IF failAt = "createSandbox" /\ createdNewVolume
            THEN <<Event("deleteVolume", bootVol, delOk)>> ELSE <<>>)
        \o (IF Booted(order, failAt) THEN <<Event("close", 0, TRUE)>> ELSE <<>>)

\* a resume whose failed check rejects with an error of its own
ResumeErrorUnnamed(existing, failAt, bootMsg, delOk, running) ==
    IF failAt = "getClient" THEN NoTokenError
    ELSE IF failAt = "createSandbox"
         THEN IF IsLimitMessage(bootMsg) THEN LimitError(running)
              ELSE Err("createSandbox", bootMsg, 0)
    ELSE IF failAt = "none" THEN NoError
    ELSE Err(failAt, <<"step failed">>, 0)

\* the error resume rejects with (NoError: it resolves)
ResumeError(existing, failAt, bootMsg, delOk, running) ==
    IF failAt = "getClient" THEN NoTokenError
    ELSE IF failAt = "check" THEN NoResumeError
    ELSE IF failAt = "createSandbox"
         THEN IF IsLimitMessage(bootMsg) THEN LimitError(running)
              ELSE Err("createSandbox", bootMsg, 0)
    ELSE IF failAt = "none" THEN NoError
    ELSE Err(failAt, <<"step failed">>, 0)

\* the row resume records for the new sandbox
\* a resume whose new row inherits the source row's snapshot
ResumeSessionWithSnapshot(resolvedId, existing, bootVol, sessionId) ==
    Row(resolvedId, "cloud", "running", existing.agent, bootVol,
        existing.snapshotSlug, sessionId)

\* the row resume records for the new sandbox
ResumeSession(resolvedId, existing, bootVol, sessionId) ==
    Row(resolvedId, "cloud", "running", existing.agent, bootVol, NoSlug, sessionId)

\* a resume that records the new row although a step has thrown
ResumeStoreAlways(db, newSession, err) == upsertSession(db, newSession)

\* the store after resume: the upsert is its last statement, reached when
\* no step has thrown
ResumeStore(db, newSession, err) ==
    IF err = NoError THEN upsertSession(db, newSession) ELSE db

ResumeOutcomes ==
    [failAt : {"none"}, bootMsg : {<<>>}, delOk : {TRUE}, resolved : BOOLEAN]
    \cup [failAt : {"getClient", "check", "createVolume", "injectCredentials", "agent"},
          bootMsg : {<<>>}, delOk : {TRUE}, resolved : {TRUE}]
    \cup [failAt : {"createSandbox"}, bootMsg : BootMessages,
          delOk : BOOLEAN, resolved : {TRUE}]

Resume(sessionId, tokenOk, out) ==
    LET existing == dbGetSession(store, sessionId)
        order == ResumeOrder(existing)
        failAt == out.failAt
        newVol == nextVol + 1
        bootVol == BootVolume(existing, newVol)
        sb == nextSb + 1
        resolvedId == IF out.resolved THEN sb ELSE EmptyId
        trace == ResumeTrace(existing, failAt, newVol, out.bootMsg, out.delOk)
        err == ResumeError(existing, failAt, out.bootMsg, out.delOk, RunningCount(store))
        newSession == ResumeSession(resolvedId, existing, bootVol, sessionId)
        volMade == Has(trace, "createVolume") /\ failAt # "createVolume"
        booted == Booted(order, failAt)
    IN  /\ last = Idle
        /\ failAt \in {"none"} \cup {order[i] : i \in 1..Len(order)}
        /\ (failAt = "getClient") = ~getClientOk(tokenOk)
        /\ getClientOk(tokenOk) => ((failAt = "check") = ~Resumable(existing))
        \* the backend clones only a snapshot that exists, boots only from a
        \* volume that exists, and hands out a bounded number of ids and slugs
        /\ volMade => CloneVolumePossible(existing.snapshotSlug) /\ nextVol < MaxVolumes
        /\ booted => nextSb < MaxSandboxes /\ (volMade \/ bootVol \in volumes)
        /\ nextVol' = IF volMade THEN newVol ELSE nextVol
        /\ volumes' = IF volMade /\ ~(failAt = "createSandbox" /\ out.delOk)
                       THEN volumes \cup {newVol} ELSE volumes
        /\ nextSb' = IF booted THEN sb ELSE nextSb
        /\ sandboxes' = IF booted THEN sandboxes \cup {[id |-> sb, root |-> bootVol]}
                         ELSE sandboxes
        /\ store' = ResumeStore(store, newSession, err)
        /\ last' = Op("resume", sessionId, [agent |-> existing.agent, interactive |-> FALSE],
                       store, trace, err,
                       IF err = NoError THEN <<resolvedId>> ELSE Null, {})
        /\ UNCHANGED <<snapshots, nextSnap, nextLocal>>

----------------------------------------------------------------------------
(* CloudSandboxProvider.list *)

\* a list that returns the rows as it read them
ListSyncStale(rows, listed, syncOk) == rows

\* the rows list returns: the cloud rows, those found running in the store
\* but absent from the backend's listing turned to exited when the sync ran
ListSync(rows, listed, syncOk) ==
    [i \in DOMAIN rows |->
        IF syncOk /\ rows[i].status = "running" /\ i \notin listed
        THEN [rows[i] EXCEPT !.status = "exited"] ELSE rows[i]]

\* a list that reconciles against an empty listing when the sync failed
ListStoreUnguarded(db, rows, listed, syncOk) ==
    [i \in DOMAIN db |->
        IF i \in DOMAIN rows /\ rows[i].status = "running" /\ i \notin listed
        THEN [db[i] EXCEPT !.status = "exited"] ELSE db[i]]

\* the store after list: updateSessionStatus(id, exited) for the same rows
ListStore(db, rows, listed, syncOk) ==
    [i \in DOMAIN db |->
        IF syncOk /\ i \in DOMAIN rows /\ rows[i].status = "running" /\ i \notin listed
        THEN [db[i] EXCEPT !.status = "exited"] ELSE db[i]]

\* the calls list issues: the sync, then one status update per session found
\* running in the store and absent from the listing
ListTrace(rows, listed, clientOk, listOk) ==
    LET gone == {i \in DOMAIN rows : rows[i].status = "running" /\ i \notin listed}
        order == SortedIds(gone)
    IN  <<Event("getClient", 0, clientOk)>>
        \o (IF clientOk THEN <<Event("listSandboxes", 0, listOk)>> ELSE <<>>)
        \o (IF clientOk /\ listOk
            THEN [i \in 1..Len(order) |-> Event("updateSessionStatus", order[i], TRUE)]
            ELSE <<>>)

\* the sync's failure is caught and logged
ListError(clientOk, listOk) == NoError

List(tokenOk, listOk) ==
    LET dbSessions == dbListSessions(store, "cloud")
        clientOk == getClientOk(tokenOk)
        syncOk == clientOk /\ listOk
        listed == IF syncOk THEN LiveIds ELSE {}
        trace == ListTrace(dbSessions, listed, clientOk, listOk)
    IN  /\ last = Idle
        /\ store' = ListStore(store, dbSessions, listed, syncOk)
        /\ last' = Op("list", NoSession, NoRequest,
                       store, trace, ListError(clientOk, listOk),
                       <<ListSync(dbSessions, listed, syncOk)>>, listed)
        /\ UNCHANGED <<sandboxes, volumes, snapshots, nextSb, nextVol, nextSnap, nextLocal>>

----------------------------------------------------------------------------
(* CloudSandboxProvider.remove *)

\* a remove that deletes the volume first
RemoveTraceVolumeFirst(session, sessionId, clientOk, killOk, snapOk, volOk) ==
    <<Event("getClient", 0, clientOk)>>
    \o (IF clientOk
        THEN <<Event("killSandbox", sessionId, killOk)>>
             \o (IF session.volumeSlug # NoSlug
                 THEN <<Event("deleteVolume", session.volumeSlug, volOk)>> ELSE <<>>)
             \o (IF session.snapshotSlug # NoSlug
                 THEN <<Event("deleteSnapshot", session.snapshotSlug, snapOk)>> ELSE <<>>)
        ELSE <<>>)

\* the calls remove issues, in order
RemoveTrace(session, sessionId, clientOk, killOk, snapOk, volOk) ==
    <<Event("getClient", 0, clientOk)>>
    \o (IF clientOk
        THEN <<Event("killSandbox", sessionId, killOk)>>
             \o (IF session.snapshotSlug # NoSlug
                 THEN <<Event("deleteSnapshot", session.snapshotSlug, snapOk)>> ELSE <<>>)
             \o (IF session.volumeSlug # NoSlug
                 THEN <<Event("deleteVolume", session.volumeSlug, volOk)>> ELSE <<>>)
        ELSE <<>>)

\* a remove that lets the failure of getClient through
RemoveErrorPropagates(clientOk, killOk, snapOk, volOk) ==
    IF clientOk THEN NoError ELSE NoTokenError

\* the error remove rejects with: every cleanup failure is caught
RemoveError(clientOk, killOk, snapOk, volOk) == NoError

Remove(sessionId, tokenOk, killIn, snapIn, volIn) ==
    LET session == dbGetSession(store, sessionId)
        clientOk == getClientOk(tokenOk)
        killOk == killIn /\ KillPossible(sessionId)
        snapTried == clientOk /\ session.snapshotSlug # NoSlug
        snapOk == snapIn /\ DeleteSnapshotPossible(session.snapshotSlug)
        snapsAfter == IF snapTried /\ snapOk
                      THEN {s \in snapshots : s.slug # session.snapshotSlug}
                      ELSE snapshots
        volTried == clientOk /\ session.volumeSlug # NoSlug
        volOk == /\ volIn
                 /\ session.volumeSlug \in volumes
                 /\ \A s \in snapsAfter : s.src # session.volumeSlug
        err == RemoveError(clientOk, killOk, snapOk, volOk)
    IN  /\ last = Idle
        /\ sandboxes' = IF clientOk /\ killOk
                         THEN {s \in sandboxes : s.id # sessionId} ELSE sandboxes
        /\ snapshots' = snapsAfter
        /\ volumes' = IF volTried /\ volOk THEN volumes \ {session.volumeSlug} ELSE volumes
        /\ store' = IF err = NoError THEN dbDeleteSession(store, sessionId) ELSE store
        /\ last' = Op("remove", sessionId, NoRequest,
                       store,
                       RemoveTrace(session, sessionId, clientOk, killOk, snapOk, volOk),
                       err, Null, {})
        /\ UNCHANGED <<nextSb, nextVol, nextSnap, nextLocal>>

----------------------------------------------------------------------------
(* CloudSandboxProvider.stop *)

\* a stop that records the slug whether or not the snapshot succeeded
StopSnapshotAlways(session, newSlug, snapOk) == newSlug

\* the snapshotSlug stop records: the new slug when the snapshot succeeded
StopSnapshot(session, newSlug, snapOk) ==
    IF snapOk THEN newSlug ELSE session.snapshotSlug

\* the store after stop: status stopped, then the snapshot slug
StopStore(db, session, sessionId, newSlug, snapTried, snapOk) ==
    LET stopped == updateSessionStatus(db, sessionId, "stopped")
    IN  IF snapTried
        THEN updateSessionSnapshot(stopped, sessionId,
                                   StopSnapshot(session, newSlug, snapOk))
        ELSE stopped

\* a stop that snapshots the volume before it kills the sandbox
StopTraceSnapshotFirst(session, sessionId, clientOk, killOk, snapOk) ==
    <<Event("getClient", 0, clientOk)>>
    \o (IF clientOk
        THEN (IF session.volumeSlug # NoSlug
              THEN <<Event("snapshotVolume", session.volumeSlug, snapOk)>>
              ELSE <<>>)
             \o <<Event("killSandbox", sessionId, killOk),
                  Event("updateSessionStatus", sessionId, TRUE)>>
        ELSE <<>>)

\* the calls stop issues, in order; the kill's ok tells whether the sandbox
\* was killed (killSandbox returns either way)
StopTrace(session, sessionId, clientOk, killOk, snapOk) ==
    <<Event("getClient", 0, clientOk)>>
    \o (IF clientOk
        THEN <<Event("killSandbox", sessionId, killOk),
               Event("updateSessionStatus", sessionId, TRUE)>>
             \o (IF session.volumeSlug # NoSlug
                 THEN <<Event("snapshotVolume", session.volumeSlug, snapOk)>>
                 ELSE <<>>)
        ELSE <<>>)

\* killSandbox swallows its failure, a failed snapshot is logged
StopError(clientOk, killOk, snapOk) ==
    IF clientOk THEN NoError ELSE NoTokenError

Stop(sessionId, tokenOk, killIn, snapIn) ==
    LET session == dbGetSession(store, sessionId)
        clientOk == getClientOk(tokenOk)
        killOk == killIn /\ KillPossible(sessionId)
        live == IF clientOk /\ killOk
                THEN {s \in sandboxes : s.id # sessionId} ELSE sandboxes
        snapTried == clientOk /\ session.volumeSlug # NoSlug
        newSlug == nextSnap + 1
        \* the backend snapshots a volume that exists, attached to a live
        \* sandbox or not (ensureCloudSnapshot snapshots its build volume
        \* while the build sandbox runs)
        snapOk == /\ snapIn
                  /\ nextSnap < MaxSnapshots
                  /\ session.volumeSlug \in volumes
    IN  /\ last = Idle
        /\ sandboxes' = live
        /\ snapshots' = IF snapTried /\ snapOk
                         THEN snapshots \cup {[slug |-> newSlug, src |-> session.volumeSlug]}
                         ELSE snapshots
        /\ nextSnap' = IF snapTried /\ snapOk THEN newSlug ELSE nextSnap
        /\ store' = IF clientOk
                     THEN StopStore(store, session, sessionId, newSlug, snapTried, snapOk)
                     ELSE store
        /\ last' = Op("stop", sessionId, NoRequest,
                       store, StopTrace(session, sessionId, clientOk, killOk, snapOk),
                       StopError(clientOk, killOk, snapOk), Null, {})
        /\ UNCHANGED <<volumes, nextSb, nextVol, nextLocal>>

----------------------------------------------------------------------------
(* The local provider records a container session in the same store: a row *)
(* of provider docker, which has no volume and no snapshot.                *)

RecordLocal(agent) ==
    /\ last = Idle
    /\ nextLocal < MaxLocal
    /\ nextLocal' = nextLocal + 1
    /\ store' = upsertSession(store,
                    Row(LocalBase + nextLocal + 1, "docker", "running", agent,
                        NoSlug, NoSlug, NoSession))
    /\ last' = Op("recordLocal", NoSession, [agent |-> agent, interactive |-> FALSE],
                   store, <<>>, NoError, Null, {})
    /\ UNCHANGED <<sandboxes, volumes, snapshots, nextSb, nextVol, nextSnap>>

----------------------------------------------------------------------------
(* The backend ends a sandbox on its own (timeout, agent finished). *)

SandboxExit(s) ==
    /\ last = Idle
    /\ s \in sandboxes
    /\ sandboxes' = sandboxes \ {s}
    /\ UNCHANGED <<store, volumes, snapshots, nextSb, nextVol, nextSnap,
                   nextLocal, last>>

----------------------------------------------------------------------------
(* The caller takes the result of the operation. *)

Return ==
    /\ last # Idle
    /\ last' = Idle
    /\ UNCHANGED <<store, sandboxes, volumes, snapshots, nextSb, nextVol,
                   nextSnap, nextLocal>>

----------------------------------------------------------------------------

CloudInit ==
    /\ store = <<>>
    /\ sandboxes = {}
    /\ volumes = {}
    /\ snapshots = {}
    /\ nextSb = 0
    /\ nextVol = 0
    /\ nextSnap = 0
    /\ nextLocal = 0
    /\ last = Idle

DockerIdle ==
    /\ containers = <<>>
    /\ images = {}
    /\ dlast = DockerNone

BuildIdle ==
    /\ baseSnapshot = FALSE
    /\ buildVolumes = {}
    /\ buildSandboxes = {}
    /\ nextBuild = 0
    /\ dockerImage = FALSE
    /\ blast = BuildNone
    /\ progress = <<>>

StatusIdle ==
    /\ cstate = NoState
    /\ listStatus = NoReport
    /\ getStatus = NoReport

TelemetryIdle ==
    /\ queue = <<>>
    /\ flushPromise = FALSE
    /\ sends = <<>>
    /\ enabledCache = "null"
    /\ tracks = [t \in 1..MaxTracks |-> NoTrack]
    /\ nextEvent = 0

PromptIdle ==
    /\ history = <<>>
    /\ entries = <<>>
    /\ index = 0
    /\ initialized = FALSE
    /\ pcall = NoCall

LogIdle ==
    /\ agentLog = 0
    /\ lastOffset = 0
    /\ emitted = 0
    /\ streamStopped = FALSE
    /\ logPc = "poll"
    /\ lastPoll = "none"

CredIdle ==
    /\ claudeCreds = Absent
    /\ opencodeAuth = Absent
    /\ clast = NoCredCall

CallsIdle ==
    /\ listCall = NoListCall
    /\ stopCall = NoStopCall

Init ==
    /\ CloudInit /\ DockerIdle /\ BuildIdle /\ StatusIdle /\ TelemetryIdle
    /\ PromptIdle /\ LogIdle /\ CredIdle /\ CallsIdle

TokenStates == BOOLEAN

\* the outcomes of a backend call: it fails when it cannot succeed or is not
\* reached, and may fail for a reason of the backend's own when it can
Outcomes(possible) == IF possible THEN BOOLEAN ELSE {FALSE}

\* an operation starts once the caller has taken the previous one's result
DoCreate ==
    /\ last = Idle
    /\ \E agent \in Agents, interactive \in BOOLEAN, hasInit \in BOOLEAN,
          tokenOk \in TokenStates, out \in CreateOutcomes :
            Create(agent, interactive, hasInit, tokenOk, out)
    /\ UNCHANGED outsideCloud

\* resume is also asked for ids of rows that carry no volume and no snapshot:
\* the rows of local-container sessions
DoResume ==
    /\ last = Idle
    /\ \E id \in CallerIds \cup LocalIds, tokenOk \in TokenStates, out \in ResumeOutcomes :
            Resume(id, tokenOk, out)
    /\ UNCHANGED outsideCloud

DoStop ==
    /\ last = Idle
    /\ \E id \in CallerIds, tokenOk \in TokenStates :
         \E killIn \in Outcomes(tokenOk /\ KillPossible(id)),
            snapIn \in Outcomes(tokenOk) :
            Stop(id, tokenOk, killIn, snapIn)
    /\ UNCHANGED outsideCloud

DoRemove ==
    /\ last = Idle
    /\ \E id \in CallerIds, tokenOk \in TokenStates :
         \E killIn \in Outcomes(tokenOk /\ KillPossible(id)),
            snapIn \in Outcomes(tokenOk), volIn \in Outcomes(tokenOk) :
            Remove(id, tokenOk, killIn, snapIn, volIn)
    /\ UNCHANGED outsideCloud

DoList ==
    /\ last = Idle
    /\ \E tokenOk \in TokenStates :
         \E listOk \in Outcomes(tokenOk) : List(tokenOk, listOk)
    /\ UNCHANGED outsideCloud

DoRecordLocal ==
    /\ last = Idle
    /\ \E agent \in {"opencode"} : RecordLocal(agent)
    /\ UNCHANGED outsideCloud

DoSandboxExit ==
    /\ last = Idle
    /\ \E s \in sandboxes : SandboxExit(s)
    /\ UNCHANGED outsideCloud

DoReturn == Return /\ UNCHANGED outsideCloud

Next ==
    \/ DoCreate
    \/ DoResume
    \/ DoStop
    \/ DoRemove
    \/ DoList
    \/ DoRecordLocal
    \/ DoSandboxExit
    \/ DoReturn

Spec == Init /\ [][Next]_vars

----------------------------------------------------------------------------
(* CloudSandboxProvider.createShell: an ephemeral sandbox with a shell. *)

CreateShellOrder(hasRepo) ==
    <<"getClient", "ensureImage", "createVolume", "createSandbox",
      "injectCredentials", "mkdir">>
    \o (IF hasRepo THEN <<"clone">> ELSE <<>>)
    \o <<"ssh">>

\* the calls createShell issues when step failAt throws: the kill and the
\* volume delete are in the finally block of the steps after the boot
CreateShellTrace(order, failAt, v, sb, killOk, delOk) ==
    LET done == StepsUpTo(order, failAt)
    IN  [i \in 1..Len(done) |->
            Event(done[i],
                  IF done[i] = "createVolume" THEN v
                  ELSE IF done[i] = "createSandbox" THEN sb ELSE 0,
                  done[i] # failAt)]
        \o (IF Booted(order, failAt)
            THEN <<Event("kill", sb, killOk), Event("deleteVolume", v, delOk)>>
            ELSE <<>>)

\* the error createShell rejects with (NoError: the shell exited)
CreateShellError(failAt) ==
    IF failAt = "getClient" THEN NoTokenError
    ELSE IF failAt = "none" THEN NoError
    ELSE Err(failAt, <<"step failed">>, 0)

CreateShellOutcomes ==
    [failAt : {"getClient", "ensureImage", "createVolume", "createSandbox"},
     killOk : {TRUE}, delOk : {TRUE}]
    \cup [failAt : {"none", "injectCredentials", "mkdir", "clone", "ssh"},
          killOk : BOOLEAN, delOk : BOOLEAN]

CreateShell(hasRepo, tokenOk, out) ==
    /\ last = Idle
    /\ nextSb < MaxSandboxes
    /\ nextVol < MaxVolumes
    /\ (out.failAt = "getClient") = ~getClientOk(tokenOk)
    /\ out.failAt = "clone" => hasRepo
    /\ LET order == CreateShellOrder(hasRepo)
           failAt == out.failAt
           v == nextVol + 1
           sb == nextSb + 1
           trace == CreateShellTrace(order, failAt, v, sb, out.killOk, out.delOk)
           volMade == Has(trace, "createVolume") /\ failAt # "createVolume"
           booted == Booted(order, failAt)
       IN  /\ nextVol' = IF volMade THEN v ELSE nextVol
           /\ volumes' = IF volMade /\ ~(booted /\ out.delOk)
                          THEN volumes \cup {v} ELSE volumes
           /\ nextSb' = IF booted THEN sb ELSE nextSb
           /\ sandboxes' = IF booted /\ ~out.killOk
                            THEN sandboxes \cup {[id |-> sb, root |-> v]}
                            ELSE sandboxes
           /\ last' = Op("createShell", NoSession, NoRequest, store, trace,
                          CreateShellError(failAt), Null, {})
           /\ UNCHANGED <<store, snapshots, nextSnap, nextLocal>>

DoCreateShell ==
    /\ last = Idle
    /\ \E hasRepo \in BOOLEAN, tokenOk \in TokenStates, out \in CreateShellOutcomes :
           CreateShell(hasRepo, tokenOk, out)
    /\ UNCHANGED outsideCloud

ShellNext ==
    \/ DoCreateShell
    \/ DoCreate
    \/ DoSandboxExit
    \/ DoReturn

ShellSpec == Init /\ [][ShellNext]_vars

----------------------------------------------------------------------------
(* The docker service: containers managed through the docker command line. *)
(* A container is addressed by its id, by the first twelve characters of   *)
(* its id, or by its name; docker inspect resolves all three.              *)

\* docker inspect: the container the reference names (0: none)
inspect(cs, ref) ==
    IF ref.n \in 1..Len(cs) /\ cs[ref.n].exists THEN ref.n ELSE 0

\* the status getSession and listHermesSessions report
containerStatus(c) == IF c.running THEN "running" ELSE "exited"

\* getSession: the session of a managed container (Null: none)
getSession(cs, ref) ==
    LET n == inspect(cs, ref)
    IN  IF n = 0 THEN Null
        ELSE IF ~cs[n].managed THEN Null
        ELSE <<[containerId |-> Ref("short", n),
                containerName |-> Ref("name", n),
                agent |-> cs[n].agent,
                resumedFrom |-> cs[n].resumedFrom,
                status |-> containerStatus(cs[n])]>>

\* listHermesSessions: the sessions of the managed containers
listHermesSessions(cs) ==
    {getSession(cs, Ref("id", n))[1] :
        n \in {k \in 1..Len(cs) : cs[k].exists /\ cs[k].managed}}

\* startContainer: docker run -d returns the new container's id; the
\* interactive run is removed when it exits and returns null
startContainer(agent, detach, runOk) ==
    /\ Len(containers) < MaxContainers
    /\ LET n == Len(containers) + 1
       IN  /\ containers' = IF runOk
                             THEN Append(containers,
                                      Container(detach, detach, TRUE, agent, NoRef, NoImage))
                             ELSE containers
           /\ dlast' = DockerOp("start", NoRef, detach,
                                IF runOk THEN "none" ELSE "docker run failed",
                                IF runOk /\ detach THEN Ref("id", n) ELSE NoRef)
    /\ UNCHANGED images

\* a container that hermes did not start
ForeignContainer(running) ==
    /\ Len(containers) < MaxContainers
    /\ containers' = Append(containers,
                         Container(TRUE, running, FALSE, "none", NoRef, NoImage))
    /\ UNCHANGED <<images, dlast>>

\* the agent of a running container finishes
ContainerExit(n) ==
    /\ n \in 1..Len(containers)
    /\ containers[n].exists /\ containers[n].running
    /\ containers' = [containers EXCEPT ![n].running = FALSE]
    /\ UNCHANGED <<images, dlast>>

\* stopContainer: docker stop
stopContainer(nameOrId) ==
    LET n == inspect(containers, nameOrId)
    IN  /\ containers' = IF n = 0 THEN containers
                          ELSE [containers EXCEPT ![n].running = FALSE]
        /\ dlast' = DockerOp("stop", nameOrId, FALSE,
                             IF n = 0 THEN "docker stop failed" ELSE "none", NoRef)
        /\ UNCHANGED images

\* the label hermes.resumed-from of the container resumeSession starts
resumedFromLabel(nameOrId, n) == Ref("name", n)

\* the error resumeSession throws ("none": it resolves)
resumeError(cs, nameOrId, detached, hasPrompt, commitOk, runOk) ==
    LET n == inspect(cs, nameOrId)
    IN  IF detached /\ ~hasPrompt THEN "Prompt is required for detached resume"
        ELSE IF n = 0 THEN "Container not found"
        ELSE IF ~cs[n].managed THEN "Container is not managed by hermes"
        ELSE IF cs[n].running THEN "Container is already running"
        ELSE IF ~commitOk THEN "docker commit failed"
        ELSE IF ~runOk THEN "docker run failed"
        ELSE "none"

\* resumeSession: commit the stopped container to an image and run a new
\* container from it; detached returns the new id, interactive the new name
resumeSession(nameOrId, detached, hasPrompt, commitOk, runOk) ==
    LET n == inspect(containers, nameOrId)
        err == resumeError(containers, nameOrId, detached, hasPrompt, commitOk, runOk)
        new == Len(containers) + 1
        committed == err \in {"none", "docker run failed"}
    IN  /\ Len(containers) < MaxContainers
        /\ images' = IF committed THEN images \cup {new} ELSE images
        /\ containers' =
              IF err = "none"
              THEN Append(containers,
                       Container(TRUE, detached, TRUE, containers[n].agent,
                                 resumedFromLabel(nameOrId, n), new))
              ELSE containers
        /\ dlast' = DockerOp("resume", nameOrId, detached, err,
                             IF err # "none" THEN NoRef
                             ELSE IF detached THEN Ref("id", new) ELSE Ref("name", new))

\* removeContainer: docker rm -f, then the resume image if the container
\* carries one; a failed image removal is ignored
removeContainer(nameOrId, rmiOk) ==
    LET n == inspect(containers, nameOrId)
        resumeImage == IF n = 0 THEN NoImage ELSE containers[n].resumeImage
    IN  /\ containers' = IF n = 0 THEN containers
                          ELSE [containers EXCEPT ![n].exists = FALSE,
                                                  ![n].running = FALSE]
        /\ images' = IF n # 0 /\ resumeImage # NoImage /\ rmiOk
                      THEN images \ {resumeImage} ELSE images
        /\ dlast' = DockerOp("remove", nameOrId, FALSE,
                             IF n = 0 THEN "docker rm failed" ELSE "none", NoRef)

DoStartContainer ==
    \E agent \in Agents, detach \in BOOLEAN, runOk \in BOOLEAN :
        startContainer(agent, detach, runOk) /\ UNCHANGED outsideDocker
DoForeignContainer ==
    \E running \in BOOLEAN : ForeignContainer(running) /\ UNCHANGED outsideDocker
DoContainerExit ==
    \E n \in 1..MaxContainers : ContainerExit(n) /\ UNCHANGED outsideDocker
DoStopContainer ==
    \E ref \in Refs : stopContainer(ref) /\ UNCHANGED outsideDocker
DoResumeSession ==
    \E ref \in Refs, detached \in BOOLEAN, hasPrompt \in BOOLEAN,
       commitOk \in BOOLEAN, runOk \in BOOLEAN :
        resumeSession(ref, detached, hasPrompt, commitOk, runOk) /\ UNCHANGED outsideDocker
DoRemoveContainer ==
    \E ref \in Refs, rmiOk \in BOOLEAN :
        removeContainer(ref, rmiOk) /\ UNCHANGED outsideDocker

DockerNext ==
    \/ DoStartContainer
    \/ DoForeignContainer
    \/ DoContainerExit
    \/ DoStopContainer
    \/ DoResumeSession
    \/ DoRemoveContainer

DockerSpec == Init /\ [][DockerNext]_vars

----------------------------------------------------------------------------
(* The sandbox image: the base snapshot of the cloud provider              *)
(* (ensureCloudSnapshot, called by CloudSandboxProvider.ensureImage) and   *)
(* the docker image of the local provider (ensureDockerImage).             *)

getBaseSnapshotSlug == "hermes-base-version"

\* the steps of the base-snapshot build, in order
BuildSteps ==
    <<"createVolume", "createSandbox", "packages", "gh", "user", "claude",
      "tiger", "opencode", "git", "snapshotVolume">>
BuildStepNames == {BuildSteps[i] : i \in 1..Len(BuildSteps)} \cup {"docker build"}

\* what getSnapshot answers: the snapshot, null, or it throws
SnapshotChecks == {"exists", "absent", "throws"}

\* the build's last phase when the kill's failure escaped the finally block
cleanupStoppedByKill(booted, v, killOk, delOk) ==
    (IF booted THEN <<Event("kill", v, killOk)>> ELSE <<>>)
    \o (IF booted /\ ~killOk THEN <<>> ELSE <<Event("deleteVolume", v, delOk)>>)

\* the build's last phase: kill the build sandbox if one was booted, then
\* delete the build volume; each failure is caught
cleanup(booted, v, killOk, delOk) ==
    (IF booted THEN <<Event("kill", v, killOk)>> ELSE <<>>)
    \o <<Event("deleteVolume", v, delOk)>>

\* the calls ensureCloudSnapshot issues when step failAt throws
ensureCloudSnapshotTrace(check, failAt, v, killOk, delOk) ==
    LET done == StepsUpTo(BuildSteps, failAt)
        booted == Booted(BuildSteps, failAt)
    IN  <<Event("getSnapshot", 0, check # "throws")>>
        \o (IF check = "exists" THEN <<>>
            ELSE [i \in 1..Len(done) |->
                     Event(done[i],
                           IF done[i] \in {"createVolume", "createSandbox", "snapshotVolume"}
                           THEN v ELSE 0,
                           done[i] # failAt)]
                 \o (IF failAt = "createVolume" THEN <<>>
                     ELSE cleanup(booted, v, killOk, delOk)))

\* the error ensureCloudSnapshot rejects with ("none": it resolves)
ensureCloudSnapshotError(check, failAt) ==
    IF check = "exists" THEN "none" ELSE failAt

\* the progress event ensureCloudSnapshot reports before a build step
StepProgress(step) ==
    IF step = "createVolume" THEN "creating-volume"
    ELSE IF step = "createSandbox" THEN "booting-sandbox"
    ELSE IF step = "snapshotVolume" THEN "snapshotting"
    ELSE "installing"

\* the progress events ensureCloudSnapshot reports, in order
ensureCloudSnapshotProgress(check, failAt) ==
    LET started == StepsUpTo(BuildSteps, failAt)
    IN  <<"checking">>
        \o (IF check = "exists" THEN <<"exists">>
            ELSE [i \in 1..Len(started) |-> StepProgress(started[i])]
                 \o (IF failAt = "none" THEN <<"done">> ELSE <<>>)
                 \o (IF failAt = "createVolume" THEN <<>>
                     ELSE <<"cleaning-up">>))

\* ensureImage's onProgress: the event passed on for each of them
ensureImageProgress(events) ==
    [i \in 1..Len(events) |->
        IF events[i] \in {"checking", "exists", "done"} THEN events[i]
        ELSE "building"]

\* ensureCloudSnapshot, reached through ensureImage once the token is read
ensureImage(tokenOk, check, failAt, killOk, delOk) ==
    LET v == nextBuild + 1
        builds == tokenOk /\ check # "exists"
        volMade == builds /\ failAt # "createVolume"
        booted == volMade /\ Booted(BuildSteps, failAt)
        err == IF ~tokenOk THEN "No Deno Deploy token configured"
               ELSE ensureCloudSnapshotError(check, failAt)
        trace == IF ~tokenOk THEN <<Event("getDenoToken", 0, FALSE)>>
                 ELSE <<Event("getDenoToken", 0, TRUE)>>
                      \o ensureCloudSnapshotTrace(check, failAt, v, killOk, delOk)
    IN  /\ blast.n < MaxEnsureCalls
        /\ volMade => nextBuild < MaxBuilds
        /\ check = "exists" => baseSnapshot
        /\ check = "absent" => ~baseSnapshot
        /\ baseSnapshot' = (baseSnapshot \/ (builds /\ failAt = "none"))
        /\ nextBuild' = IF volMade THEN v ELSE nextBuild
        /\ buildVolumes' = IF volMade /\ ~delOk THEN buildVolumes \cup {v}
                            ELSE buildVolumes
        /\ buildSandboxes' = IF booted /\ ~killOk THEN buildSandboxes \cup {v}
                              ELSE buildSandboxes
        /\ blast' = BuildOp(blast.n + 1, "ensureImage", trace, err,
                            IF err = "none" THEN getBaseSnapshotSlug ELSE "none")
        /\ progress' = IF ~tokenOk THEN <<>>
                       ELSE ensureImageProgress(
                                ensureCloudSnapshotProgress(check, failAt))
        /\ UNCHANGED dockerImage

\* dockerImageExists: docker image inspect succeeded
dockerImageExists(exists, inspectOk) == exists /\ inspectOk

\* ensureDockerImage: build the image unless it is found
ensureDockerImage(inspectOk, buildOk) ==
    LET found == dockerImageExists(dockerImage, inspectOk)
        trace == <<Event("docker image inspect", 0, found)>>
                 \o (IF found THEN <<>> ELSE <<Event("docker build", 0, buildOk)>>)
        err == IF found \/ buildOk THEN "none" ELSE "Docker build failed"
    IN  /\ blast.n < MaxEnsureCalls
        /\ dockerImage' = (dockerImage \/ (~found /\ buildOk))
        /\ blast' = BuildOp(blast.n + 1, "ensureDockerImage", trace, err, "none")
        /\ UNCHANGED <<baseSnapshot, buildVolumes, buildSandboxes, nextBuild,
                       progress>>

\* the build sandbox reaches its timeout
BuildSandboxExit(v) ==
    /\ v \in buildSandboxes
    /\ buildSandboxes' = buildSandboxes \ {v}
    /\ UNCHANGED <<baseSnapshot, buildVolumes, nextBuild, dockerImage, blast,
                   progress>>

\* the outcomes of one ensureCloudSnapshot: the kill matters once a sandbox
\* was booted, the delete once a volume was made
BuildOutcomes ==
    [check : {"exists"}, failAt : {"none"}, killOk : {TRUE}, delOk : {TRUE}]
    \cup [check : {"absent", "throws"}, failAt : {"createVolume"},
          killOk : {TRUE}, delOk : {TRUE}]
    \cup [check : {"absent", "throws"}, failAt : {"createSandbox"},
          killOk : {TRUE}, delOk : BOOLEAN]
    \cup [check : {"absent", "throws"},
          failAt : {"none", "packages", "gh", "user", "claude", "tiger",
                    "opencode", "git", "snapshotVolume"},
          killOk : BOOLEAN, delOk : BOOLEAN]

DoEnsureImage ==
    /\ \E tokenOk \in TokenStates, out \in BuildOutcomes :
           ensureImage(tokenOk, out.check, out.failAt, out.killOk, out.delOk)
    /\ UNCHANGED outsideBuild
DoEnsureDockerImage ==
    /\ \E inspectOk \in BOOLEAN, buildOk \in BOOLEAN :
           ensureDockerImage(inspectOk, buildOk)
    /\ UNCHANGED outsideBuild
DoBuildSandboxExit ==
    /\ \E v \in 1..MaxBuilds : BuildSandboxExit(v)
    /\ UNCHANGED outsideBuild

BuildNext ==
    \/ DoEnsureImage
    \/ DoEnsureDockerImage
    \/ DoBuildSandboxExit

BuildSpec == Init /\ [][BuildNext]_vars

----------------------------------------------------------------------------
(* The status of a container session, derived from the State that docker   *)
(* inspect reports, by listHermesSessions and by getSession.               *)

StateStatuses ==
    {"created", "running", "paused", "restarting", "removing", "exited",
     "dead"}

\* every State: each flag either way, each Status string
States ==
    {State(st, r, p, rs, d, ec, fin) :
        st \in StateStatuses, r \in BOOLEAN, p \in BOOLEAN, rs \in BOOLEAN,
        d \in BOOLEAN, ec \in 0..MaxExitCode, fin \in 0..MaxTime}

\* listHermesSessions: the status of one inspected container
listSessionStatus(state) ==
    IF state.Running THEN "running"
    ELSE IF state.Paused THEN "paused"
    ELSE IF state.Restarting THEN "restarting"
    ELSE IF state.Dead THEN "dead"
    ELSE IF state.Status = "created" THEN "created"
    ELSE "exited"

\* listHermesSessions: status, exitCode and finishedAt of one container
listSessionReportAlways(state) ==
    LET status == listSessionStatus(state)
    IN  Report(status, state.ExitCode,
               IF status = "exited" THEN state.FinishedAt ELSE Undefined)

listSessionReport(state) ==
    LET status == listSessionStatus(state)
    IN  Report(status,
               IF status = "exited" THEN state.ExitCode ELSE Undefined,
               IF status = "exited" THEN state.FinishedAt ELSE Undefined)

\* getSession: the status of the inspected container
getSessionStatus(state) ==
    IF state.Running THEN "running"
    ELSE IF state.Paused THEN "paused"
    ELSE IF state.Restarting THEN "restarting"
    ELSE IF state.Dead THEN "dead"
    ELSE IF state.Status = "created" THEN "created"
    ELSE "exited"

\* getSession: status, exitCode and finishedAt of the container
getSessionReport(state) ==
    LET status == getSessionStatus(state)
    IN  Report(status,
               IF status = "exited" THEN state.ExitCode ELSE Undefined,
               IF status = "exited" THEN state.FinishedAt ELSE Undefined)

DoListStatus ==
    /\ listStatus = NoReport
    /\ listStatus' = listSessionReport(cstate)
    /\ UNCHANGED <<cstate, getStatus>>
    /\ UNCHANGED outsideStatus

DoGetStatus ==
    /\ getStatus = NoReport
    /\ getStatus' = getSessionReport(cstate)
    /\ UNCHANGED <<cstate, listStatus>>
    /\ UNCHANGED outsideStatus

StatusInit ==
    /\ CloudInit /\ DockerIdle /\ BuildIdle /\ TelemetryIdle
    /\ PromptIdle /\ LogIdle /\ CredIdle /\ CallsIdle
    /\ cstate \in States
    /\ listStatus = NoReport
    /\ getStatus = NoReport

StatusNext ==
    \/ DoListStatus
    \/ DoGetStatus

StatusSpec == StatusInit /\ [][StatusNext]_vars

----------------------------------------------------------------------------
(* Telemetry (TelemetryService): events are queued by track and sent in    *)
(* batches by flush.  track is an async function that callers do not       *)
(* await: it runs up to its next await and resumes later, so several calls *)
(* can be in progress, each between two of its awaits.                     *)

\* flush, up to its own await: the queue and flushPromise it leaves, and
\* what the call did: nothing, joined the flush in flight, or sent a batch
flushUnguarded(q, sending) ==
    IF Len(q) = 0 THEN <<q, sending, "none">>
    ELSE <<<<>>, TRUE, "send">>

flush(q, sending) ==
    IF Len(q) = 0 THEN <<q, sending, "none">>
    ELSE IF sending THEN <<q, sending, "join">>
    ELSE <<<<>>, TRUE, "send">>

\* the sendWithRetry calls after a flush call
SendsAfter(ss, did, batch) ==
    IF did = "send" THEN Append(ss, NewSend(batch))
    ELSE IF did = "join"
        THEN [i \in DOMAIN ss |-> [ss[i] EXCEPT !.joined = TRUE]]
    ELSE ss

\* track is called: it runs up to `await this.isEnabled()`
TrackCall(t) ==
    /\ tracks[t] = NoTrack
    /\ nextEvent < MaxEvents
    /\ nextEvent' = nextEvent + 1
    /\ tracks' = [tracks EXCEPT ![t] = Track("isEnabled", nextEvent + 1)]
    /\ UNCHANGED <<queue, flushPromise, sends, enabledCache>>

\* track resumes with the answer of isEnabled (the cached one when there
\* is one): returns when disabled, else makes room in a full queue and
\* runs up to `await this.getAnonymousId()`
TrackEnabled(t, on) ==
    /\ tracks[t].pc = "isEnabled"
    /\ enabledCache \in {"null", IF on THEN "true" ELSE "false"}
    /\ enabledCache' = IF on THEN "true" ELSE "false"
    /\ IF ~on
          THEN /\ tracks' = [tracks EXCEPT ![t] = NoTrack]
               /\ queue' = queue
          ELSE /\ tracks' = [tracks EXCEPT ![t].pc = "getAnonymousId"]
               /\ queue' = IF Len(queue) >= MAX_QUEUE_SIZE
                              THEN Tail(queue) ELSE queue
    /\ UNCHANGED <<flushPromise, sends, nextEvent>>

\* track resumes with the anonymous id: pushes the event and, with a batch
\* queued, starts a flush it does not await
TrackPush(t) ==
    /\ tracks[t].pc = "getAnonymousId"
    /\ LET pushed == Append(queue, tracks[t].event)
           after == IF Len(pushed) >= BATCH_SIZE
                       THEN flush(pushed, flushPromise)
                       ELSE <<pushed, flushPromise, "none">>
       IN  /\ queue' = after[1]
           /\ flushPromise' = after[2]
           /\ sends' = SendsAfter(sends, after[3], pushed)
    /\ tracks' = [tracks EXCEPT ![t] = NoTrack]
    /\ UNCHANGED <<enabledCache, nextEvent>>

\* flush is called from outside track
Flush ==
    /\ queue' = flush(queue, flushPromise)[1]
    /\ flushPromise' = flush(queue, flushPromise)[2]
    /\ sends' = SendsAfter(sends, flush(queue, flushPromise)[3], queue)
    /\ UNCHANGED <<enabledCache, tracks, nextEvent>>

\* what fetch answers: a status class, or a network error / timeout
Responses == {"2xx", "4xx", "5xx", "error"}

\* sendWithRetry, one turn of its loop: the call after one more attempt
\* that got `response`
sendWithRetryPastClientError(send, response) ==
    LET n == send.attempts + 1
    IN  Send(send.batch, n, response,
             IF response = "2xx" \/ n >= MAX_RETRIES
                 THEN "resolved" ELSE "pending",
             send.joined)

sendWithRetry(send, response) ==
    LET n == send.attempts + 1
    IN  Send(send.batch, n, response,
             IF response \in {"2xx", "4xx"} \/ n >= MAX_RETRIES
                 THEN "resolved" ELSE "pending",
             send.joined)

\* one attempt of a sendWithRetry call in progress
SendAttempt(i, response) ==
    /\ i \in DOMAIN sends
    /\ sends[i].outcome = "pending"
    /\ sends[i].attempts < MAX_RETRIES
    /\ sends' = [sends EXCEPT ![i] = sendWithRetry(sends[i], response)]
    /\ UNCHANGED <<queue, flushPromise, enabledCache, tracks, nextEvent>>

\* the events of a sequence
Range(q) == {q[k] : k \in DOMAIN q}

FlushSettleRequeues ==
    /\ \E i \in DOMAIN sends :
           /\ sends[i].outcome # "pending"
           /\ sends' = SubSeq(sends, 1, i - 1)
                           \o SubSeq(sends, i + 1, Len(sends))
           /\ queue' = IF sends[i].response \in {"2xx", "4xx"}
                          THEN queue
                          ELSE sends[i].batch \o queue
    /\ flushPromise' = FALSE
    /\ UNCHANGED <<enabledCache, tracks, nextEvent>>

\* sendWithRetry has returned: the flush that awaited it clears flushPromise
FlushSettle ==
    /\ \E i \in DOMAIN sends :
           /\ sends[i].outcome # "pending"
           /\ sends' = SubSeq(sends, 1, i - 1)
                           \o SubSeq(sends, i + 1, Len(sends))
    /\ flushPromise' = FALSE
    /\ UNCHANGED <<queue, enabledCache, tracks, nextEvent>>

DoTrackCall ==
    /\ \E t \in 1..MaxTracks : TrackCall(t)
    /\ UNCHANGED outsideTelemetry
DoTrackEnabled ==
    /\ \E t \in 1..MaxTracks, on \in BOOLEAN : TrackEnabled(t, on)
    /\ UNCHANGED outsideTelemetry
DoTrackPush ==
    /\ \E t \in 1..MaxTracks : TrackPush(t)
    /\ UNCHANGED outsideTelemetry
DoFlush == Flush /\ UNCHANGED outsideTelemetry
DoSendAttempt ==
    /\ \E i \in DOMAIN sends, response \in Responses :
           SendAttempt(i, response)
    /\ UNCHANGED outsideTelemetry
DoFlushSettle == FlushSettle /\ UNCHANGED outsideTelemetry

TelemetryNext ==
    \/ DoTrackCall
    \/ DoTrackEnabled
    \/ DoTrackPush
    \/ DoFlush
    \/ DoSendAttempt
    \/ DoFlushSettle

TelemetrySpec == Init /\ [][TelemetryNext]_vars

\* every fetch settles (it is aborted after FLUSH_TIMEOUT_MS) and every
\* backoff timer fires, so a send in progress makes its next attempt and
\* the flush awaiting a finished send resumes
TelemetryFairSpec ==
    /\ TelemetrySpec
    /\ WF_vars(DoSendAttempt)
    /\ WF_vars(DoFlushSettle)

----------------------------------------------------------------------------
(* Prompt history: the prompt_history table (promptHistoryDb.ts) and the   *)
(* navigation store over it (usePromptHistoryStore).  A prompt is a string *)
(* of characters; the space stands for every whitespace character.         *)

Chars == {" ", "a"}
Prompts == UNION {[1..n -> Chars] : n \in 0..MaxPromptLen}

\* String.prototype.trim
RECURSIVE trimStart(_)
trimStart(str) ==
    IF str # <<>> /\ Head(str) = " " THEN trimStart(Tail(str)) ELSE str
RECURSIVE trimEnd(_)
trimEnd(str) ==
    IF str # <<>> /\ str[Len(str)] = " "
        THEN trimEnd(SubSeq(str, 1, Len(str) - 1)) ELSE str
trim(str) == trimEnd(trimStart(str))

\* addPromptHistoryEntry: the rows after the call
addPromptHistoryEntryUntrimmed(db, prompt) ==
    IF trim(prompt) = <<>> THEN db
    ELSE IF db # <<>> /\ db[Len(db)] = prompt THEN db
    ELSE Append(db, prompt)

addPromptHistoryEntry(db, prompt) ==
    LET trimmed == trim(prompt)
    IN  IF trimmed = <<>> THEN db
        ELSE IF db # <<>> /\ db[Len(db)] = trimmed THEN db
        ELSE Append(db, trimmed)

\* getRecentPrompts without a cursor: the newest `limit` rows, newest first
getRecentPrompts(db, limit) ==
    LET n == IF Len(db) < limit THEN Len(db) ELSE limit
    IN  [i \in 1..n |-> db[Len(db) - i + 1]]

\* Array.prototype.reverse
reverse(rows) == [i \in 1..Len(rows) |-> rows[Len(rows) - i + 1]]

\* Array.prototype.at: <<element>>, or <<>> for undefined
at(es, i) ==
    IF i >= 0 THEN (IF i < Len(es) THEN <<es[i + 1]>> ELSE <<>>)
    ELSE (IF -i <= Len(es) THEN <<es[Len(es) + i + 1]>> ELSE <<>>)

\* a prompt is added by a caller of promptHistoryDb.ts
AddPromptHistoryEntry(prompt) ==
    /\ Len(history) < MaxHistory
    /\ history' = addPromptHistoryEntry(history, prompt)
    /\ pcall' = Call("addPromptHistoryEntry", prompt, 0, <<>>)
    /\ UNCHANGED <<entries, index, initialized>>

\* usePromptHistoryStore.addEntry
addEntry(prompt) ==
    LET trimmed == trim(prompt)
        newest == at(entries, Len(entries) - 1)
    IN  /\ Len(history) < MaxHistory
        /\ Len(entries) < MaxHistory
        /\ pcall' = Call("addEntry", prompt, 0, <<>>)
        /\ UNCHANGED initialized
        /\ IF trimmed = <<>>
              THEN UNCHANGED <<history, entries, index>>
              ELSE /\ history' = addPromptHistoryEntry(history, trimmed)
                   /\ index' = 0
                   /\ entries' = IF newest # <<>> /\ newest[1] = trimmed
                                     THEN entries
                                     ELSE Append(entries, trimmed)

\* usePromptHistoryStore.move: the index after the call and what it
\* returns (<<>>: undefined)
moveResult(es, idx, direction, currentInput) ==
    LET current == at(es, idx)
        next == idx + direction
        abs == IF next < 0 THEN -next ELSE next
    IN  IF Len(es) = 0 THEN <<idx, <<>>>>
        ELSE IF current # <<>> /\ current[1] # currentInput
                /\ Len(currentInput) # 0 THEN <<idx, <<>>>>
        ELSE IF abs > Len(es) THEN <<idx, <<>>>>
        ELSE IF next > 0 THEN <<idx, <<>>>>
        ELSE IF next = 0 THEN <<next, << <<>> >> >>
        ELSE <<next, at(es, next)>>

move(direction, currentInput) ==
    /\ index' = moveResult(entries, index, direction, currentInput)[1]
    /\ pcall' = Call("move", currentInput, direction,
                     moveResult(entries, index, direction, currentInput)[2])
    /\ UNCHANGED <<history, entries, initialized>>

\* usePromptHistoryStore.initialize
initialize ==
    /\ pcall' = Call("initialize", <<>>, 0, <<>>)
    /\ UNCHANGED <<history, index>>
    /\ IF initialized
          THEN UNCHANGED <<entries, initialized>>
          ELSE /\ entries' = reverse(getRecentPrompts(history, PAGE_SIZE))
               /\ initialized' = TRUE

DoAddPromptHistoryEntry ==
    /\ \E prompt \in Prompts : AddPromptHistoryEntry(prompt)
    /\ UNCHANGED outsidePrompts
DoAddEntry ==
    /\ \E prompt \in Prompts : addEntry(prompt)
    /\ UNCHANGED outsidePrompts
DoMove ==
    /\ \E direction \in {-1, 1}, currentInput \in Prompts :
           move(direction, currentInput)
    /\ UNCHANGED outsidePrompts
DoInitialize == initialize /\ UNCHANGED outsidePrompts

PromptNext ==
    \/ DoAddPromptHistoryEntry
    \/ DoAddEntry
    \/ DoMove
    \/ DoInitialize

PromptSpec == Init /\ [][PromptNext]_vars

----------------------------------------------------------------------------
(* CloudSandboxProvider.streamLogs: generateLines polls /work/agent.log    *)
(* and yields what was appended since the last poll.                       *)

\* how one poll can go: the token is missing, the connect or the read
\* throws, or the file is read
PollOutcomes == {"no token", "failed", "read"}

\* one turn of the loop of generateLines, up to its timer
Poll(out) ==
    /\ logPc = "poll"
    /\ IF streamStopped
          THEN /\ logPc' = "done"
               /\ UNCHANGED <<lastOffset, emitted, lastPoll>>
          ELSE /\ lastPoll' = out
               /\ logPc' = IF out = "no token" THEN "done" ELSE "wait"
               /\ lastOffset' = IF out = "read" THEN agentLog ELSE lastOffset
               /\ emitted' = IF out = "read" /\ agentLog > lastOffset
                                 THEN emitted + (agentLog - lastOffset)
                                 ELSE emitted
    /\ UNCHANGED <<agentLog, streamStopped>>

\* the timer of the poll interval fires
PollTimer ==
    /\ logPc = "wait"
    /\ logPc' = "poll"
    /\ UNCHANGED <<agentLog, lastOffset, emitted, streamStopped, lastPoll>>

\* LogStream.stop
StopStream ==
    /\ streamStopped' = TRUE
    /\ UNCHANGED <<agentLog, lastOffset, emitted, logPc, lastPoll>>

\* the agent writes to its log
AgentWrites ==
    /\ agentLog < MaxLogLen
    /\ agentLog' = agentLog + 1
    /\ UNCHANGED <<lastOffset, emitted, streamStopped, logPc, lastPoll>>

DoPoll == (\E out \in PollOutcomes : Poll(out)) /\ UNCHANGED outsideLogs
DoPollTimer == PollTimer /\ UNCHANGED outsideLogs
DoStopStream == StopStream /\ UNCHANGED outsideLogs
DoAgentWrites == AgentWrites /\ UNCHANGED outsideLogs

LogNext ==
    \/ DoPoll
    \/ DoPollTimer
    \/ DoStopStream
    \/ DoAgentWrites

LogSpec == Init /\ [][LogNext]_vars

----------------------------------------------------------------------------
(* The credential files mounted into containers: ~/.claude/.credentials.json *)
(* and opencode's auth.json.  A path is absent, a directory, or a regular    *)
(* file whose content is 0 for '{}' and 1..MaxContent for stored credentials. *)

EmptyJson == Path("file", 0)
Contents == 1..MaxContent

\* Bun's file(path).exists(): true for a regular file, false for a
\* directory and for a missing path
exists(p) == p.kind = "file"

\* Bun.write(path, '{}'): replaces a file, creates a missing one, and
\* throws on a directory or when the write fails
write(p, writeOk) ==
    IF p.kind = "directory" \/ ~writeOk
      THEN <<p, "threw">>
      ELSE <<EmptyJson, "returned">>

\* stat, then rm when the path is a directory; every error is swallowed
fixBrokenCredentialsDir(p, rmOk) ==
    IF p.kind = "directory" /\ rmOk THEN Absent ELSE p

ensureCredentialsFileAlwaysWrites(p, mkdirOk, rmOk, writeOk) ==
    IF ~mkdirOk
      THEN <<p, "threw">>
      ELSE write(fixBrokenCredentialsDir(p, rmOk), writeOk)

\* the path after the call, and whether the call returned or threw
ensureCredentialsFile(p, mkdirOk, rmOk, writeOk) ==
    IF ~mkdirOk
      THEN <<p, "threw">>
      ELSE LET localCreds == fixBrokenCredentialsDir(p, rmOk)
           IN  IF ~exists(localCreds)
                 THEN write(localCreds, writeOk)
                 ELSE <<localCreds, "returned">>

fixBrokenAuthDir(p, rmOk) ==
    IF p.kind = "directory" /\ rmOk THEN Absent ELSE p

ensureAuthFile(p, mkdirOk, rmOk, writeOk) ==
    IF ~mkdirOk
      THEN <<p, "threw">>
      ELSE LET localAuth == fixBrokenAuthDir(p, rmOk)
           IN  IF ~exists(localAuth)
                 THEN write(localAuth, writeOk)
                 ELSE <<localAuth, "returned">>

getClaudeConfigVolume(mkdirOk, rmOk, writeOk) ==
    LET r == ensureCredentialsFile(claudeCreds, mkdirOk, rmOk, writeOk)
    IN  /\ claudeCreds' = r[1]
        /\ clast' = CredCall("getClaudeConfigVolume", claudeCreds, r[2])
        /\ UNCHANGED opencodeAuth

getOpencodeConfigVolume(mkdirOk, rmOk, writeOk) ==
    LET r == ensureAuthFile(opencodeAuth, mkdirOk, rmOk, writeOk)
    IN  /\ opencodeAuth' = r[1]
        /\ clast' = CredCall("getOpencodeConfigVolume", opencodeAuth, r[2])
        /\ UNCHANGED claudeCreds

\* the mount bug: docker mounts a path that does not exist and creates
\* it as a directory
MountBug ==
    /\ \/ claudeCreds = Absent /\ claudeCreds' = Directory
          /\ UNCHANGED opencodeAuth
       \/ opencodeAuth = Absent /\ opencodeAuth' = Directory
          /\ UNCHANGED claudeCreds
    /\ clast' = NoCredCall

\* the login flow stores credentials in an existing file
Login(c) ==
    /\ \/ claudeCreds.kind = "file" /\ claudeCreds' = Path("file", c)
          /\ UNCHANGED opencodeAuth
       \/ opencodeAuth.kind = "file" /\ opencodeAuth' = Path("file", c)
          /\ UNCHANGED claudeCreds
    /\ clast' = NoCredCall

\* the user removes a credentials file
RemoveFile ==
    /\ \/ claudeCreds.kind = "file" /\ claudeCreds' = Absent
          /\ UNCHANGED opencodeAuth
       \/ opencodeAuth.kind = "file" /\ opencodeAuth' = Absent
          /\ UNCHANGED claudeCreds
    /\ clast' = NoCredCall

DoGetClaudeConfigVolume ==
    /\ \E mkdirOk, rmOk, writeOk \in BOOLEAN :
          getClaudeConfigVolume(mkdirOk, rmOk, writeOk)
    /\ UNCHANGED outsideCreds
DoGetOpencodeConfigVolume ==
    /\ \E mkdirOk, rmOk, writeOk \in BOOLEAN :
          getOpencodeConfigVolume(mkdirOk, rmOk, writeOk)
    /\ UNCHANGED outsideCreds
DoMountBug == MountBug /\ UNCHANGED outsideCreds
DoLogin == (\E c \in Contents : Login(c)) /\ UNCHANGED outsideCreds
DoRemoveFile == RemoveFile /\ UNCHANGED outsideCreds

CredsNext ==
    \/ DoGetClaudeConfigVolume
    \/ DoGetOpencodeConfigVolume
    \/ DoMountBug
    \/ DoLogin
    \/ DoRemoveFile

CredsSpec == Init /\ [][CredsNext]_vars

----------------------------------------------------------------------------
(* list() and stop(id) of the cloud provider as the async functions they   *)
(* are: each runs from one await to the next, and a step of the other call *)
(* can come in between.  The sessions were created before.                 *)

MaxRunning == 2       \* sessions running when the calls start

\* the store and the backend after MaxRunning sessions were created
CallsInit ==
    /\ store = [i \in 1..MaxRunning |->
                   Row(i, "cloud", "running", "claude", i, NoSlug, NoSession)]
    /\ sandboxes = {[id |-> i, root |-> i] : i \in 1..MaxRunning}
    /\ volumes = 1..MaxRunning
    /\ snapshots = {}
    /\ nextSb = MaxRunning
    /\ nextVol = MaxRunning
    /\ nextSnap = 0
    /\ nextLocal = 0
    /\ last = Idle
    /\ DockerIdle /\ BuildIdle /\ StatusIdle /\ TelemetryIdle
    /\ PromptIdle /\ LogIdle /\ CredIdle /\ CallsIdle

\* list is called: it reads the rows and awaits getClient
ListStart ==
    /\ listCall = NoListCall
    /\ listCall' = ListCall("getClient", dbListSessions(store, "cloud"))
    /\ UNCHANGED <<cloudVars, stopCall>>

\* list resumes with the client and awaits listSandboxes; without a
\* client it returns the rows it read
ListClient(tokenOk) ==
    /\ listCall.pc = "getClient"
    /\ listCall' = IF getClientOk(tokenOk)
                      THEN [listCall EXCEPT !.pc = "listSandboxes"]
                      ELSE NoListCall
    /\ UNCHANGED <<cloudVars, stopCall>>

\* list resumes with the listing: it marks exited the rows it read as
\* running that are not listed, and returns
ListListed(listOk) ==
    /\ listCall.pc = "listSandboxes"
    /\ store' = ListStore(store, listCall.dbSessions, LiveIds, listOk)
    /\ listCall' = NoListCall
    /\ UNCHANGED <<sandboxes, volumes, snapshots, nextSb, nextVol, nextSnap,
                   nextLocal, last, stopCall>>

\* stop(id) is called: it reads the row and awaits getClient
StopStart(sessionId) ==
    /\ stopCall = NoStopCall
    /\ stopCall' = StopCall("getClient", sessionId,
                            dbGetSession(store, sessionId))
    /\ UNCHANGED <<cloudVars, listCall>>

\* stop resumes with the client and awaits killSandbox; without a client
\* it rejects
StopClient(tokenOk) ==
    /\ stopCall.pc = "getClient"
    /\ stopCall' = IF getClientOk(tokenOk)
                      THEN [stopCall EXCEPT !.pc = "killSandbox"]
                      ELSE NoStopCall
    /\ UNCHANGED <<cloudVars, listCall>>

\* stop resumes after killSandbox: it records stopped and, for a row with
\* a volume, awaits snapshotVolume
StopKilled(killIn) ==
    /\ stopCall.pc = "killSandbox"
    /\ sandboxes' = IF killIn /\ KillPossible(stopCall.id)
                       THEN {s \in sandboxes : s.id # stopCall.id}
                       ELSE sandboxes
    /\ store' = updateSessionStatus(store, stopCall.id, "stopped")
    /\ stopCall' = IF stopCall.session.volumeSlug # NoSlug
                      THEN [stopCall EXCEPT !.pc = "snapshotVolume"]
                      ELSE NoStopCall
    /\ UNCHANGED <<volumes, snapshots, nextSb, nextVol, nextSnap, nextLocal,
                   last, listCall>>

\* stop resumes after snapshotVolume: it records the slug of a snapshot
\* that was taken, and returns
StopSnapshotted(snapIn) ==
    LET newSlug == nextSnap + 1
        snapOk == /\ snapIn
                  /\ nextSnap < MaxSnapshots
                  /\ stopCall.session.volumeSlug \in volumes
    IN  /\ stopCall.pc = "snapshotVolume"
        /\ snapshots' = IF snapOk
                           THEN snapshots \cup
                                {[slug |-> newSlug,
                                  src |-> stopCall.session.volumeSlug]}
                           ELSE snapshots
        /\ nextSnap' = IF snapOk THEN newSlug ELSE nextSnap
        /\ store' = IF snapOk
                       THEN updateSessionSnapshot(store, stopCall.id, newSlug)
                       ELSE store
        /\ stopCall' = NoStopCall
        /\ UNCHANGED <<sandboxes, volumes, nextSb, nextVol, nextLocal, last,
                       listCall>>

DoListStart == ListStart /\ UNCHANGED outsideCalls
DoListClient ==
    /\ \E tokenOk \in TokenStates : ListClient(tokenOk)
    /\ UNCHANGED outsideCalls
DoListListed ==
    /\ \E listOk \in BOOLEAN : ListListed(listOk)
    /\ UNCHANGED outsideCalls
DoStopStart ==
    /\ \E sessionId \in DOMAIN store : StopStart(sessionId)
    /\ UNCHANGED outsideCalls
DoStopClient ==
    /\ \E tokenOk \in TokenStates : StopClient(tokenOk)
    /\ UNCHANGED outsideCalls
DoStopKilled ==
    /\ \E killIn \in BOOLEAN : StopKilled(killIn)
    /\ UNCHANGED outsideCalls
DoStopSnapshotted ==
    /\ \E snapIn \in BOOLEAN : StopSnapshotted(snapIn)
    /\ UNCHANGED outsideCalls

CallsNext ==
    \/ DoListStart
    \/ DoListClient
    \/ DoListListed
    \/ DoStopStart
    \/ DoStopClient
    \/ DoStopKilled
    \/ DoStopSnapshotted

CallsSpec == CallsInit /\ [][CallsNext]_vars

----------------------------------------------------------------------------
(* Properties of the cloud provider.  `last' holds the operation that has  *)
(* just completed; an operation's step is the step from last = Idle to the *)
(* state that records it.                                                  *)

EventsOf(trace, call) == {i \in 1..Len(trace) : trace[i].call = call}

\* C1: when create resolves, the store holds exactly one more row; the row
\* has a non-empty id, status running, the requested agent and no
\* resumed-from, and a detached create returns that row.
C1_CreateAddsOneRunningRow ==
    (last.op = "create" /\ last.err = NoError) =>
        \E id \in DOMAIN store \ last.ids :
            /\ DOMAIN store = last.ids \cup {id}
            /\ id # EmptyId
            /\ store[id].id = id
            /\ store[id].status = "running"
            /\ store[id].agent = last.req.agent
            /\ store[id].resumedFrom = NoSession
            /\ (~last.req.interactive => last.ret = <<store[id]>>)

\* C2: stop(id) followed by a successful resume(id) returns an id different
\* from id, and the session of the resumed container has resumedFrom = id.
C2_ResumeRecordsOriginalId ==
    [][(/\ dlast.op = "stop" /\ dlast.err = "none"
        /\ dlast'.op = "resume" /\ dlast'.err = "none"
        /\ dlast'.arg = dlast.arg) =>
          /\ dlast'.ret # dlast.arg
          /\ getSession(containers', dlast'.ret) # Null
          /\ getSession(containers', dlast'.ret)[1].resumedFrom = dlast.arg
       ]_vars

\* C3: remove never rejects, and after it the store has no row with the id,
\* whichever backend calls failed.
C3_RemoveAlwaysDeletesRow ==
    last.op = "remove" => (last.err = NoError /\ last.id \notin DOMAIN store)

C3_Witness ==
    /\ last.op = "remove"
    /\ last.pre # NoRow
    /\ \E i \in 1..Len(last.trace) : ~last.trace[i].ok
    /\ last.id \notin DOMAIN store

\* C4: when remove runs its backend cleanup for a row with a snapshot and a
\* volume, the snapshot delete is issued before the volume delete, and the
\* volume delete is issued even when the snapshot delete fails.
C4_RemoveSnapshotBeforeVolume ==
    (/\ last.op = "remove"
     /\ last.pre.snapshotSlug # NoSlug
     /\ last.pre.volumeSlug # NoSlug
     /\ Has(last.trace, "killSandbox")) =>
        /\ \E i \in EventsOf(last.trace, "deleteSnapshot") :
               last.trace[i].arg = last.pre.snapshotSlug
        /\ \A i \in EventsOf(last.trace, "deleteSnapshot") :
               \E j \in EventsOf(last.trace, "deleteVolume") :
                   i < j /\ last.trace[j].arg = last.pre.volumeSlug
        /\ \A j \in EventsOf(last.trace, "deleteVolume") :
               \E i \in EventsOf(last.trace, "deleteSnapshot") : i < j

C4_Witness ==
    /\ last.op = "remove"
    /\ last.pre.snapshotSlug # NoSlug
    /\ last.pre.volumeSlug # NoSlug
    /\ \E i \in EventsOf(last.trace, "deleteSnapshot") : ~last.trace[i].ok
    /\ Has(last.trace, "deleteVolume")

\* C5 as stated: resume of an id whose row has neither a snapshot nor a
\* volume (or that has no row) rejects with the no-resume error and creates
\* no volume and no sandbox.
C5_ResumeWithoutStateRejects ==
    (last.op = "resume" /\ ~Resumable(last.pre)) =>
        /\ last.err = NoResumeError
        /\ ~Has(last.trace, "createVolume")
        /\ ~Has(last.trace, "createSandbox")

\* C5, amended: such a resume rejects with the no-resume error when the
\* backend client is available and with the client's own error when it is
\* not; in both cases it creates no volume and no sandbox.
C5_ResumeWithoutStateRejectsAfterClient ==
    (last.op = "resume" /\ ~Resumable(last.pre)) =>
        /\ last.err = IF last.trace[1].ok THEN NoResumeError ELSE NoTokenError
        /\ last.trace[1].call = "getClient"
        /\ ~Has(last.trace, "createVolume")
        /\ ~Has(last.trace, "createSandbox")

C5_Witness ==
    /\ last.op = "resume"
    /\ last.pre # NoRow
    /\ ~Resumable(last.pre)
    /\ last.err = NoResumeError

C7_CreateBootFailureDeletesVolume ==
    (last.op = "create") =>
        \A b \in EventsOf(last.trace, "createSandbox") :
            ~last.trace[b].ok =>
                /\ \E d \in EventsOf(last.trace, "deleteVolume") :
                       d > b /\ last.trace[d].arg = last.trace[b].arg
                /\ \E c \in EventsOf(last.trace, "createVolume") :
                       c < b /\ last.trace[c].ok /\ last.trace[c].arg = last.trace[b].arg
                /\ ~IsLimitMessage(last.trace[b].msg) =>
                       last.err = Err("createSandbox", last.trace[b].msg, 0)

C7_Witness ==
    /\ last.op = "create"
    /\ \E b \in EventsOf(last.trace, "createSandbox") :
           ~last.trace[b].ok /\ ~IsLimitMessage(last.trace[b].msg)
    /\ \E d \in EventsOf(last.trace, "deleteVolume") : ~last.trace[d].ok
    /\ last.err.call = "createSandbox"

\* C8: a create that rejects after it made a volume has issued a delete of
\* that volume, and a kill of the sandbox if one was booted.
C8_FailedCreateCleansUp ==
    (last.op = "create" /\ last.err # NoError) =>
        /\ \A c \in EventsOf(last.trace, "createVolume") :
               last.trace[c].ok =>
                   \E d \in EventsOf(last.trace, "deleteVolume") :
                       last.trace[d].arg = last.trace[c].arg
        /\ \A b \in EventsOf(last.trace, "createSandbox") :
               last.trace[b].ok => Has(last.trace, "killSandbox")

\* C9: list returns every cloud row with the status the store holds for it
\* after the call, and when its sync ran, a row that was running and whose
\* sandbox the backend does not list is exited in the store and in the result.
C9_ListReconcilesExited ==
    [][(last = Idle /\ last'.op = "list") =>
          LET ret == last'.ret[1]
              synced == \E i \in EventsOf(last'.trace, "listSandboxes") : last'.trace[i].ok
          IN  /\ DOMAIN ret = {id \in DOMAIN store : store[id].provider = "cloud"}
              /\ \A id \in DOMAIN ret :
                     id \in DOMAIN store' /\ ret[id].status = store'[id].status
              /\ synced =>
                     \A id \in DOMAIN ret :
                         (store[id].status = "running" /\ id \notin LiveIds) =>
                             (ret[id].status = "exited" /\ store'[id].status = "exited")
       ]_vars

C9_Witness ==
    /\ last.op = "list"
    /\ \E i \in EventsOf(last.trace, "updateSessionStatus") :
           /\ last.trace[i].arg \notin LiveIds
           /\ last.ret[1][last.trace[i].arg].status = "exited"
           /\ store[last.trace[i].arg].status = "exited"

\* C10: when list cannot get the client or the backend listing fails, list
\* does not reject, returns the cloud rows as stored and changes no row.
C10_ListSyncFailureLeavesStore ==
    [][(/\ last = Idle
        /\ last'.op = "list"
        /\ \E i \in 1..Len(last'.trace) : ~last'.trace[i].ok) =>
          LET ret == last'.ret[1]
          IN  /\ last'.err = NoError
              /\ store' = store
              /\ DOMAIN ret = {id \in DOMAIN store : store[id].provider = "cloud"}
              /\ \A id \in DOMAIN ret : ret[id] = store[id]
       ]_vars

C10_Witness ==
    /\ last.op = "list"
    /\ \E i \in 1..Len(last.trace) : ~last.trace[i].ok
    /\ \E id \in DOMAIN last.ret[1] :
           last.ret[1][id].status = "running" /\ id \notin LiveIds

\* C11: a successful resume adds one new row and leaves every field of the
\* source session's row as it was before the call.
C11_ResumeAddsRowKeepsSource ==
    [][(last = Idle /\ last'.op = "resume" /\ last'.err = NoError) =>
          /\ \E id \in DOMAIN store' \ DOMAIN store :
                 DOMAIN store' = DOMAIN store \cup {id}
          /\ last'.id \in DOMAIN store'
          /\ store'[last'.id] = store[last'.id]
       ]_vars

\* C12: a row gets a snapshotSlug only from a stop on its id whose volume
\* snapshot succeeded: the rows create and resume write carry none, and a
\* stop whose snapshot call failed sets none.
C12_SnapshotSlugOnlyFromStop ==
    [][\A id \in DOMAIN store' :
          LET old == IF id \in DOMAIN store THEN store[id].snapshotSlug ELSE NoSlug
              new == store'[id].snapshotSlug
          IN  /\ (new # NoSlug /\ new # old) =>
                     /\ last'.op = "stop"
                     /\ last'.id = id
                     /\ \E i \in EventsOf(last'.trace, "snapshotVolume") :
                            last'.trace[i].ok /\ last'.trace[i].arg = store[id].volumeSlug
              /\ (last = Idle /\ last'.op \in {"create", "resume"}
                    /\ (id \notin DOMAIN store \/ store'[id] # store[id])) =>
                     new = NoSlug
              /\ (last = Idle /\ last'.op = "stop"
                    /\ \A i \in EventsOf(last'.trace, "snapshotVolume") : ~last'.trace[i].ok) =>
                     new = old
       ]_vars

C12_Witness ==
    /\ last.op = "stop"
    /\ last.pre.snapshotSlug = NoSlug
    /\ last.id \in DOMAIN store
    /\ store[last.id].snapshotSlug # NoSlug
    /\ \E id \in DOMAIN store :
           store[id].resumedFrom # NoSession /\ store[id].snapshotSlug = NoSlug

HasBuildStep(trace) == \E i \in 1..Len(trace) : trace[i].call \in BuildStepNames

\* C13: of two consecutive ensure calls, the first having succeeded, the
\* second runs no build step and returns the image identifier of the first.
C13_EnsureImageIdempotent ==
    [][(/\ blast'.n = blast.n + 1
        /\ blast.op = blast'.op
        /\ blast.err = "none"
        /\ blast'.trace[1].call = "getDenoToken" => blast'.trace[1].ok) =>
          /\ ~HasBuildStep(blast'.trace)
          /\ blast'.err = "none"
          /\ blast'.ret = blast.ret
       ]_vars

\* C14: once the build has made its build volume, the call ends by issuing
\* a kill of the build sandbox if one was booted and then a delete of the
\* build volume, whichever step failed and whether or not the kill failed.
C14_BuildCleanupUnconditional ==
    blast.op = "ensureImage" =>
        \A c \in EventsOf(blast.trace, "createVolume") :
            blast.trace[c].ok =>
                /\ blast.trace[Len(blast.trace)].call = "deleteVolume"
                /\ blast.trace[Len(blast.trace)].arg = blast.trace[c].arg
                /\ \A b \in EventsOf(blast.trace, "createSandbox") :
                       blast.trace[b].ok =>
                           \E k \in EventsOf(blast.trace, "kill") :
                               b < k /\ blast.trace[k].arg = blast.trace[c].arg

C14_Witness ==
    /\ blast.op = "ensureImage"
    /\ blast.err \in {"packages", "snapshotVolume"}
    /\ \E k \in EventsOf(blast.trace, "kill") : ~blast.trace[k].ok
    /\ blast.trace[Len(blast.trace)].call = "deleteVolume"

\* C15: when the boot of create or resume fails with a limit, quota or
\* concurrency message, a delete is issued for the volume made in that call
\* and for no other volume, and the call rejects with the limit error that
\* carries the number of cloud rows recorded as running, whether or not the
\* delete succeeded.
C15_LimitErrorRollsBackOwnVolume ==
    (last.op \in {"create", "resume"}) =>
        \A b \in EventsOf(last.trace, "createSandbox") :
            (~last.trace[b].ok /\ IsLimitMessage(last.trace[b].msg)) =>
                /\ last.err.call = "limit"
                /\ last.err.n =
                       Cardinality({id \in DOMAIN store :
                                       /\ store[id].provider = "cloud"
                                       /\ store[id].status = "running"})
                /\ \A c \in EventsOf(last.trace, "createVolume") :
                       last.trace[c].ok =>
                           \E d \in EventsOf(last.trace, "deleteVolume") :
                               d > b /\ last.trace[d].arg = last.trace[c].arg
                /\ \A d \in EventsOf(last.trace, "deleteVolume") :
                       \E c \in EventsOf(last.trace, "createVolume") :
                           last.trace[c].ok /\ last.trace[c].arg = last.trace[d].arg

C15_Witness ==
    /\ last.op = "resume"
    /\ last.pre.volumeSlug # NoSlug
    /\ ~Has(last.trace, "createVolume")
    /\ \E b \in EventsOf(last.trace, "createSandbox") :
           ~last.trace[b].ok /\ IsLimitMessage(last.trace[b].msg)
    /\ last.err.call = "limit"
    /\ last.err.n >= 1
    /\ last.pre.volumeSlug \in volumes

\* C16: list and get report no container that lacks the hermes.managed
\* label, and remove of a reference to such a container removes nothing.
C16_OnlyManagedResources ==
    [][/\ \A h \in listHermesSessions(containers') :
              containers'[h.containerId.n].managed
       /\ \A ref \in Refs :
              getSession(containers', ref) # Null =>
                  containers'[inspect(containers', ref)].managed
       /\ \A n \in 1..Len(containers) :
              (/\ containers[n].exists
               /\ ~containers[n].managed
               /\ dlast'.op = "remove"
               /\ dlast' # dlast) =>
                  containers'[n] = containers[n]
      ]_vars

\* C17: a resume of a session whose sandbox is still running is rejected with
\* an already-running error and creates no volume and no sandbox.
C17_ResumeOfRunningRejected ==
    (/\ last.op = "resume"
     /\ last.pre.status = "running"
     /\ last.id \in LiveIds
     /\ last.trace[1].ok) =>
        /\ last.err.call = "alreadyRunning"
        /\ ~Has(last.trace, "createVolume")
        /\ ~Has(last.trace, "createSandbox")

\* C18: createShell adds no row to the store, and when it finishes, having
\* made a volume, it has issued a delete of that volume and, having booted a
\* sandbox, a kill of that sandbox.
C18_CreateShellEphemeral ==
    [][(last = Idle /\ last'.op = "createShell") =>
          /\ store' = store
          /\ \A c \in EventsOf(last'.trace, "createVolume") :
                 last'.trace[c].ok =>
                     \E d \in EventsOf(last'.trace, "deleteVolume") :
                         d > c /\ last'.trace[d].arg = last'.trace[c].arg
          /\ \A b \in EventsOf(last'.trace, "createSandbox") :
                 last'.trace[b].ok =>
                     \E k \in EventsOf(last'.trace, "kill") :
                         k > b /\ last'.trace[k].arg = last'.trace[b].arg
       ]_vars

\* the steps of create in the order the specification gives them
StatedCreateOrder ==
    <<"ensureImage", "createVolume", "createSandbox", "injectCredentials",
      "clone", "init", "agent">>

\* C25: within one create call the steps run in the stated order, each
\* after every earlier one has completed (only init may be absent), and
\* the row is written only after the agent-start step has finished.
C25_CreateStepsInOrder ==
    [][(last = Idle /\ last'.op = "create") =>
          LET tr == last'.trace
              pos(i) == IndexOf(StatedCreateOrder, tr[i].call)
              steps == {i \in 1..Len(tr) : pos(i) # 0}
          IN  /\ \A i, j \in steps :
                     i < j => pos(i) < pos(j) /\ tr[i].ok
              /\ \A j \in steps :
                     \A k \in 1..(pos(j) - 1) :
                         StatedCreateOrder[k] # "init" =>
                             Has(tr, StatedCreateOrder[k])
              /\ store' # store =>
                     \E a \in EventsOf(tr, "agent") :
                         tr[a].ok /\ \A i \in steps : i <= a
      ]_vars

C25_Witness ==
    /\ last.op = "create"
    /\ last.err = NoError
    /\ Has(last.trace, "init")
    /\ DOMAIN store # last.ids

\* C26: in stop the kill of the sandbox has been issued and has returned
\* before the snapshot of the volume is requested, and the status stopped
\* is persisted between the two.
C26_StopKillsBeforeSnapshot ==
    (last.op = "stop") =>
        \A n \in EventsOf(last.trace, "snapshotVolume") :
            \E k \in EventsOf(last.trace, "killSandbox") :
                \E u \in EventsOf(last.trace, "updateSessionStatus") :
                    /\ k < u /\ u < n
                    /\ last.trace[k].arg = last.id
                    /\ last.trace[u].arg = last.id

C26_Witness ==
    /\ last.op = "stop"
    /\ \E n \in EventsOf(last.trace, "snapshotVolume") : last.trace[n].ok
    /\ last.id \in DOMAIN store
    /\ store[last.id].status = "stopped"

\* C33: when stop(id) has recorded the status stopped the sandbox with that
\* id is no longer running in the backend: a stop whose kill failed
\* neither records stopped nor goes on to snapshot the volume.
C33_StoppedMeansNotRunning ==
    (last.op = "stop" /\ last.id \in LiveIds) =>
        /\ EventsOf(last.trace, "updateSessionStatus") = {}
        /\ EventsOf(last.trace, "snapshotVolume") = {}

\* C34: remove(id) issues no volume delete for a volume that is recorded
\* as the volumeSlug of another row of the store.
C34_RemoveSparesVolumesOfOtherRows ==
    (last.op = "remove") =>
        \A d \in EventsOf(last.trace, "deleteVolume") :
            \A i \in DOMAIN store \ {last.id} :
                store[i].volumeSlug # last.trace[d].arg

\* C35: when a list() call and a stop(id) call interleave, the status
\* stopped that stop has written is not lost: no step of the list call
\* overwrites it with exited.
C35_StoppedNotOverwritten ==
    [][\A i \in DOMAIN store :
          store[i].status = "stopped" =>
              (i \in DOMAIN store' => store'[i].status # "exited")]_vars

\* C36: when create or resume rejects, at whatever step, the session store
\* holds the rows it held before the call, every field unchanged.
C36_RejectLeavesStore ==
    [][(last = Idle /\ last'.op \in {"create", "resume"}
            /\ last'.err # NoError) => store' = store]_vars

\* a resume has rejected at its last step, the start of the agent
C36_Witness ==
    /\ last.op = "resume"
    /\ last.err = Err("agent", <<"step failed">>, 0)
    /\ \E b \in EventsOf(last.trace, "createSandbox") : last.trace[b].ok
    /\ last.pre # NoRow
    /\ DOMAIN store = last.ids

\* C37: a resume that rejects after it created a volume or booted a
\* sandbox has issued a delete for that volume and a kill for that
\* sandbox, and leaves the sandbox it booted neither running nor rowless.
C37_FailedResumeCleansUp ==
    (last.op = "resume" /\ last.err # NoError) =>
        /\ \A v \in EventsOf(last.trace, "createVolume") :
               last.trace[v].ok =>
                   \E d \in EventsOf(last.trace, "deleteVolume") :
                       d > v /\ last.trace[d].arg = last.trace[v].arg
        /\ \A b \in EventsOf(last.trace, "createSandbox") :
               last.trace[b].ok =>
                   /\ \E k \in EventsOf(last.trace, "killSandbox") : k > b
                   /\ nextSb \notin LiveIds \ DOMAIN store

\* C27: resume boots the new sandbox from a volume newly created in the
\* call whenever the source row has a snapshotSlug, and from the source
\* row's existing volume only when it has none; the new row's volumeSlug
\* is the volume the new sandbox was booted from.
C27_ResumeBootVolume ==
    [][(last = Idle /\ last'.op = "resume") =>
          \A b \in EventsOf(last'.trace, "createSandbox") :
              LET tr == last'.trace
                  boot == tr[b].arg
              IN  /\ last'.pre.snapshotSlug # NoSlug =>
                         /\ boot \notin volumes
                         /\ boot # last'.pre.volumeSlug
                         /\ \E c \in EventsOf(tr, "createVolume") :
                                c < b /\ tr[c].ok /\ tr[c].arg = boot
                  /\ last'.pre.snapshotSlug = NoSlug =>
                         /\ boot = last'.pre.volumeSlug
                         /\ ~Has(tr, "createVolume")
                  /\ last'.err = NoError =>
                         /\ store'[last'.ret[1]].volumeSlug = boot
                         /\ \E sb \in sandboxes' \ sandboxes : sb.root = boot
      ]_vars

C27_Witness ==
    /\ last.op = "resume"
    /\ last.err = NoError
    /\ last.pre.snapshotSlug # NoSlug
    /\ last.pre.volumeSlug # NoSlug
    /\ store[last.ret[1]].volumeSlug # last.pre.volumeSlug

\* C28: the progress callback of an ensureImage that resolves receives
\* checking then exists, or checking, one or more building events and
\* then done; done, when delivered, is the last event of the call.
C28_ProgressEndsWithDone ==
    (blast.op = "ensureImage") =>
        /\ \A i \in 1..Len(progress) :
               progress[i] = "done" => i = Len(progress)
        /\ blast.err = "none" =>
               \/ progress = <<"checking", "exists">>
               \/ /\ Len(progress) >= 3
                  /\ progress[1] = "checking"
                  /\ progress[Len(progress)] = "done"
                  /\ \A i \in 2..(Len(progress) - 1) :
                         progress[i] = "building"

----------------------------------------------------------------------------
(* Properties of the container status. *)

\* the flags and state of a State that select a status other than exited
Matching(state) ==
    {f \in {"running", "paused", "restarting", "dead", "created"} :
        \/ f = "running" /\ state.Running
        \/ f = "paused" /\ state.Paused
        \/ f = "restarting" /\ state.Restarting
        \/ f = "dead" /\ state.Dead
        \/ f = "created" /\ state.Status = "created"}

\* C19: for every combination of the state flags, list and get report the
\* same status; the status is that of a flag (or of the created state)
\* that matches, and exited exactly when none matches; exitCode and
\* finishedAt are set exactly when the reported status is exited.
C19_StatusFromFlags ==
    /\ (listStatus # NoReport /\ getStatus # NoReport) =>
           listStatus = getStatus
    /\ \A r \in {listStatus, getStatus} \ {NoReport} :
           /\ r.status \in Matching(cstate) \cup {"exited"}
           /\ (r.status = "exited") <=> (Matching(cstate) = {})
           /\ (r.exitCode # Undefined) <=> (r.status = "exited")
           /\ (r.finishedAt # Undefined) <=> (r.status = "exited")

C19_Witness ==
    /\ listStatus # NoReport /\ getStatus # NoReport
    /\ cstate.Paused /\ cstate.Dead /\ ~cstate.Running
    /\ listStatus.status = "paused"
    /\ listStatus.exitCode = Undefined

----------------------------------------------------------------------------
(* Properties of telemetry. *)

\* C20: after any sequence of track and flush calls the queue holds at most
\* MAX_QUEUE_SIZE events, also while a flush never completes.
C20_QueueBounded == Len(queue) <= MAX_QUEUE_SIZE

\* the sendWithRetry calls in flight
InFlight == {i \in DOMAIN sends : sends[i].outcome = "pending"}

\* C21: a flush called while an earlier flush's send is in progress starts
\* no second request: at most one sendWithRetry is in flight at a time.
C21_OneSendInFlight == Cardinality(InFlight) <= 1

C21_Witness ==
    /\ flushPromise
    /\ \E i \in InFlight : sends[i].joined
    /\ queue # <<>>

\* C22: sendWithRetry makes at most MAX_RETRIES attempts for a batch; it
\* has returned exactly when the last response was 2xx or 4xx or the third
\* attempt has failed, it never throws, and so every flush resolves.
C22_SendWithRetryGivesUp ==
    /\ [](\A i \in DOMAIN sends :
              /\ sends[i].attempts <= MAX_RETRIES
              /\ sends[i].outcome \in {"pending", "resolved"}
              /\ (sends[i].outcome = "resolved") <=>
                     \/ sends[i].response \in {"2xx", "4xx"}
                     \/ sends[i].attempts = MAX_RETRIES)
    /\ (flushPromise ~> ~flushPromise)

C22_Witness ==
    \E i \in DOMAIN sends :
        /\ sends[i].attempts = MAX_RETRIES
        /\ sends[i].response \in {"5xx", "error"}
        /\ sends[i].outcome = "resolved"

\* C31 as stated: a flush that starts a send takes every queued event out
\* of the queue, no event of a batch is in the queue afterwards, however
\* the send ends, and the events queued while a send is in flight are
\* still queued when the flush resolves.
C31_FlushTakesQueuedEvents ==
    /\ [][Len(sends') > Len(sends) =>
              /\ queue' = <<>>
              /\ Range(queue) \subseteq Range(sends'[Len(sends')].batch)]_vars
    /\ [][\A i \in DOMAIN sends :
              Range(sends[i].batch) \cap Range(queue') = {}]_vars
    /\ [][flushPromise => Range(queue) \subseteq Range(queue')]_vars

\* C31: a flush that starts a send takes every queued event out of the
\* queue, no event of a batch is in the queue afterwards, however the send
\* ends, and an event queued while a send is in flight is still queued
\* when the flush resolves unless track dropped it as the oldest event of
\* a full queue.
C31_FlushTakesQueuedEventsOrDropsOldest ==
    /\ [][Len(sends') > Len(sends) =>
              /\ queue' = <<>>
              /\ Range(queue) \subseteq Range(sends'[Len(sends')].batch)]_vars
    /\ [][\A i \in DOMAIN sends :
              Range(sends[i].batch) \cap Range(queue') = {}]_vars
    /\ [][flushPromise =>
              \A e \in Range(queue) :
                  \/ e \in Range(queue')
                  \/ e = Head(queue) /\ Len(queue) >= MAX_QUEUE_SIZE]_vars

\* every retry of a batch has failed and its flush is about to resolve,
\* with events tracked in the meantime in the queue
C31_Witness ==
    /\ flushPromise
    /\ queue # <<>>
    /\ \E i \in DOMAIN sends :
           /\ sends[i].batch # <<>>
           /\ sends[i].outcome = "resolved"
           /\ sends[i].response = "error"
           /\ sends[i].attempts = MAX_RETRIES

----------------------------------------------------------------------------
(* Properties of the prompt history. *)

\* C23: after any sequence of addPromptHistoryEntry calls no stored prompt
\* is empty or starts or ends with whitespace, and no two rows adjacent in
\* id order hold the same prompt; a call whose trimmed prompt is not empty
\* and differs from the newest row stores it, also when an earlier row
\* holds the same prompt.
C23_HistoryTrimmedNoAdjacentDuplicates ==
    /\ [](\A i \in 1..Len(history) :
              /\ history[i] # <<>>
              /\ Head(history[i]) # " "
              /\ history[i][Len(history[i])] # " "
              /\ i > 1 => history[i] # history[i - 1])
    /\ [][(/\ pcall'.op = "addPromptHistoryEntry"
            /\ trim(pcall'.prompt) # <<>>
            /\ at(history, -1) # <<trim(pcall'.prompt)>>)
              => history' = Append(history, trim(pcall'.prompt))]_vars

C23_Witness ==
    /\ Len(history) = 3
    /\ history[1] = history[3]
    /\ pcall.op = "addPromptHistoryEntry"
    /\ pcall.prompt # trim(pcall.prompt)

\* C24: after any sequence of initialize, addEntry and move calls the
\* navigation index is within -len(entries) .. 0.
C24_IndexInRange == -Len(entries) <= index /\ index <= 0

\* C32: move is blocked by the text of the current input only when the
\* store is on a history entry (index < 0) and the input is not empty and
\* differs from that entry's prompt: it then returns undefined and leaves
\* index unchanged.  With no entry selected (index 0) move(-1) goes to
\* the newest entry whatever the input is.
C32_MoveBlockedOnlyOnEditedEntry ==
    [][pcall'.op = "move" =>
          LET input == pcall'.prompt
              onEntry == index < 0 /\ -index <= Len(entries)
              edited == input # <<>> /\ at(entries, index) # <<input>>
          IN  /\ (index = 0 /\ pcall'.direction = -1 /\ entries # <<>>) =>
                     /\ index' = -1
                     /\ pcall'.ret = at(entries, -1)
              /\ (onEntry /\ edited) =>
                     /\ index' = index
                     /\ pcall'.ret = <<>>
              /\ (onEntry /\ ~edited /\ -(index + pcall'.direction)
                                            <= Len(entries)) =>
                     index' = index + pcall'.direction]_vars

----------------------------------------------------------------------------
(* Properties of the log stream. *)

\* C29: the line sequence of streamLogs ends only after stop() has been
\* called: after every poll, whatever its outcome, another poll follows.
C29_StreamEndsOnlyAfterStop == (logPc = "done") => streamStopped

----------------------------------------------------------------------------
(* Properties of the credential files. *)

\* the path a call is about, as it is now
PathOf(call) ==
    IF call.op = "getClaudeConfigVolume" THEN claudeCreds ELSE opencodeAuth

\* C30: when getClaudeConfigVolume or getOpencodeConfigVolume has
\* returned, the local credential path is a regular file, whatever it was
\* before the call (absent, a regular file, a directory), and a regular
\* file that was there before the call has kept its content.
C30_ReturnedMeansRegularFile ==
    (clast.op # "none" /\ clast.outcome = "returned") =>
        /\ PathOf(clast).kind = "file"
        /\ clast.pre.kind = "file" => PathOf(clast) = clast.pre
        /\ clast.pre.kind # "file" => PathOf(clast) = EmptyJson

\* getClaudeConfigVolume has returned after it found the directory of the
\* mount bug, while auth.json holds stored credentials
C30_Witness ==
    /\ clast = CredCall("getClaudeConfigVolume", Directory, "returned")
    /\ claudeCreds = EmptyJson
    /\ opencodeAuth \in {Path("file", c) : c \in Contents}

====
